---- MODULE Spec2Model ----
(***************************************************************************)
(* Phoenix Industries ENCLAVE backend: the authentication / session        *)
(* registry (server/services/authService + server/middleware/auth), the    *)
(* user administration routes, the filesystem routes and the terminal      *)
(* command interpreter, as state machines over the relational tables.      *)
(*                                                                         *)
(* Time is counted in whole seconds, the resolution of the iat/exp claims  *)
(* that jsonwebtoken writes into a token.                                   *)
(***************************************************************************)
EXTENDS Integers, Sequences, FiniteSets, TLC

\* ------------------------------------------------------------------ bounds
\* number of clock advances in a behaviour
MaxTicks == 1
\* number of requests started in a behaviour of the auth specification
MaxRequests == 3
\* concurrent in-flight (awaiting) requests
MaxInflight == 2
\* terminal sessions created in a behaviour
MaxTerminals == 2
\* executeCommand calls started in a behaviour of the terminal specification
MaxExecs == 1
\* concurrent in-flight executeCommand calls
MaxExecInflight == 1
\* executeCommand calls of the one session of the history specification
MaxHistory == 150
\* commands executed one after the other in the navigation specification
MaxNavExecs == 3
\* steps of the browser's clock in the frontend specification
MaxBrowserTicks == 4
\* steps of the clock in the specifications of the security middleware
MaxSecurityTicks == 2
\* calls of blockIP
MaxBlocks == 2
\* PhoenixAPI.request calls in flight at once
MaxClientCalls == 2
\* commands submitted through PhoenixTerminal.executeCommand
MaxSubmits == 2
\* times the terminal's socket connects or disconnects
MaxSocketFlips == 2

\* ------------------------------------------------------- program constants
\* JWT_EXPIRES_IN default '15m', in seconds
AccessTtl == 900
\* JWT_REFRESH_EXPIRES_IN default '7d', in seconds
RefreshTtl == 604800
\* entries of a session's command history that executeCommand keeps
HistoryLimit == 100
\* the options of authRateLimit: windowMs in milliseconds, maxRequests
windowMs == 900000
maxRequests == 10
\* the default duration of blockIP, milliseconds
BlockDuration == 3600000

\* ------------------------------------------------------------------- state
VARIABLES
  now,          \* wall clock, whole seconds
  ticks,        \* clock advances so far
  env,          \* process.env.JWT_EXPIRES_IN, "15m"
  logFails,     \* prisma.securityLog.create rejects (the log table cannot be written)
  browser,      \* the frontend: the login state stored in the browser and its clock
  security,     \* middleware/security: the limiter's Map, the blocked addresses, its clock
  client,       \* the frontend: the tokens PhoenixAPI holds, its calls, the terminal
  users,        \* table users: id -> row
  sessions,     \* table user_sessions: sequence of rows, id = index
  securityLog,  \* table security_logs: sequence of rows
  reqs,         \* in-flight auth requests suspended at an await: slot -> record
  nReq,         \* requests started so far
  issuedAccess, \* access tokens handed to clients
  issuedRefresh,\* refresh tokens handed to clients
  loggedOut,    \* user -> logout completed and no session created since
  pwChanged,    \* user -> password change completed and no session created since
  fs,           \* table filesystem: sequence of rows, id = index
  resp,         \* the answer of the request or command that completed last
  term,         \* table terminal_sessions: sequence of rows, id = index
  execs,        \* in-flight executeCommand calls: slot -> record
  nExec         \* executeCommand calls started so far

authVars == <<now, ticks, env, logFails, browser, security, client, users, sessions,
              securityLog, reqs, nReq, issuedAccess, issuedRefresh, loggedOut, pwChanged>>
fsVars == <<fs, resp>>
termVars == <<term, execs, nExec>>
vars == <<authVars, fsVars, termVars>>

\* ------------------------------------------------------------------ inputs
UserIds == {"admin", "researcher"}
\* usernames a login request may carry ("ghost" names no user)
Usernames == UserIds \cup {"ghost"}
Passwords == {"admin123", "researcher123", "newpass99"}
\* the new password of a change-password request
NewPasswords == {"newpass99"}
\* ids a :id route parameter may carry ("ghost" names no user)
UserIdParams == UserIds \cup {"ghost"}
\* bodies of PUT /api/users/:id: an email or none, an isActive flag or none
NewEmail == "new@phoenix-industries.com"
PutBodies == [email : {"undefined", NewEmail}, isActive : {"undefined", "false", "true"}]
Slots == 1..MaxInflight
ExecSlots == 1..MaxExecInflight
\* the slots of the specification of concurrent calls: one more call in flight
CallSlots == 1..(MaxExecInflight + 1)
TimeSteps == {1, AccessTtl, RefreshTtl}
Idle == [op |-> "idle"]
\* --- strings that hold paths: a string is modelled by its split('/'), so that
\* "/" is <<"", "">>, "/system" is <<"", "system">>, "notes.txt" is <<"notes.txt">>
\* and "" is <<"">>; a + "/" + b is then a \o b
Root == <<"", "">>
EmptyStr == <<"">>

\* `/${name}`
slash(name) == <<"">> \o name

\* the answer of a filesystem route
FsResp(route, level, path, id, status, items, content) ==
  [route |-> route, level |-> level, path |-> path, id |-> id, status |-> status,
   items |-> items, content |-> content]

\* no request answered yet
NoResp == FsResp("none", "", EmptyStr, 0, 0, {}, "")

\* the answer of a route that carries a status and a message only
HttpResp(route, status, message) == FsResp(route, "", EmptyStr, 0, status, {}, message)

\* process.env.NODE_ENV of the modelled deployment
NodeEnv == "development"

\* errorHandler: the status and the message of the answer to an error that
\* reached it, from the error's name, its Prisma code and its message (the
\* errors of the model carry no statusCode)
errorHandler(name, code, message) ==
  LET answer ==
        IF name = "ValidationError" THEN [status |-> 400, error |-> "Validation error"]
        ELSE IF name = "UnauthorizedError" THEN [status |-> 401, error |-> "Unauthorized"]
        ELSE IF name = "JsonWebTokenError" THEN [status |-> 401, error |-> "Invalid token"]
        ELSE IF name = "TokenExpiredError" THEN [status |-> 401, error |-> "Token expired"]
        ELSE IF name = "PrismaClientKnownRequestError"
        THEN (IF code = "P2002" THEN [status |-> 409, error |-> "Resource already exists"]
              ELSE IF code = "P2025" THEN [status |-> 404, error |-> "Resource not found"]
              ELSE [status |-> 500, error |-> "Database error"])
        ELSE [status |-> 500, error |-> message]
  IN IF NodeEnv = "production" /\ answer.status = 500
     THEN [status |-> 500, error |-> "Internal server error"]
     ELSE answer

\* the answer errorHandler gives to a plain Error(message) thrown by a service
thrown(route, message) ==
  HttpResp(route, errorHandler("Error", "", message).status, errorHandler("Error", "", message).error)
\* a string that is no token signed by this server
GarbageToken == [kind |-> "garbage"]

\* ------------------------------------------------------------------ tokens
\* jwt.sign(payload, JWT_SECRET, {expiresIn}): HS256 over payload + iat + exp,
\* so a token is a function of its payload and the second it was signed in
generateAccessToken(payload, t) ==
  [kind |-> "access", userId |-> payload.userId, username |-> payload.username,
   accessLevel |-> payload.accessLevel, iat |-> t, exp |-> t + AccessTtl]

generateRefreshToken(payload, t) ==
  [kind |-> "refresh", userId |-> payload.userId, iat |-> t, exp |-> t + RefreshTtl]

generateTokenPair(user, t) ==
  [accessToken |-> generateAccessToken(
       [userId |-> user.id, username |-> user.username, accessLevel |-> user.accessLevel], t),
   refreshToken |-> generateRefreshToken([userId |-> user.id], t)]

\* jwt.verify: the error message thrown, or "ok"
verifyAccessToken(tok, t) ==
  IF tok.kind # "access" THEN "Invalid access token"
  ELSE IF t >= tok.exp THEN "Access token expired"
  ELSE "ok"

verifyRefreshToken(tok, t) ==
  IF tok.kind # "refresh" THEN "Invalid refresh token"
  ELSE IF t >= tok.exp THEN "Refresh token expired"
  ELSE "ok"

\* sha256 hex digest: injective on the tokens of the model
hashToken(tok) == [sha256 |-> tok]

\* module.exports of utils/helpers
helpersExports ==
  {"generateUUID", "hashString", "generateRandomString", "sanitizeInput", "parseFilePath",
   "isPathSafe", "formatDate", "truncateText", "deepClone", "retry", "RateLimiter",
   "isValidEmail", "isValidUsername", "validatePasswordStrength"}

\* bcrypt.hash / bcrypt.compare
hashPassword(p) == [bcrypt |-> p]
comparePassword(p, h) == h = [bcrypt |-> p]

\* getTokenExpiration(process.env.JWT_EXPIRES_IN): a date, or a throw when the
\* variable is not set (expiresIn.match on undefined)
getTokenExpiration(expiresIn, t) ==
  IF expiresIn = "15m" THEN t + AccessTtl ELSE -1

\* -------------------------------------------------------------- table rows
SeedPassword(u) == IF u = "admin" THEN "admin123" ELSE "researcher123"
SeedLevel(u) == IF u = "admin" THEN "ADMIN" ELSE "RESEARCHER"

SeedEmail(u) == IF u = "admin" THEN "admin@phoenix-industries.com"
                ELSE "researcher@phoenix-industries.com"

\* prisma.securityLog.create of logSecurityEvent; meta is the metadata the claims read
LogRowMeta(userId, eventType, description, meta) ==
  [userId |-> userId, eventType |-> eventType, description |-> description, meta |-> meta]

LogRow(userId, eventType, description) == LogRowMeta(userId, eventType, description, 0)

\* the message of the error a rejected securityLog.create carries
LogWriteError == "Security log write failed"

\* a faulty logSecurityEvent without its try/catch: a rejected create reaches the caller
logSecurityEventRethrows(log, row) ==
  IF logFails THEN [log |-> log, threw |-> TRUE] ELSE [log |-> Append(log, row), threw |-> FALSE]

\* logSecurityEvent: the create inside try/catch, the catch only logging locally;
\* the table after the call, and whether the call threw
logSecurityEvent(log, row) ==
  IF logFails THEN [log |-> log, threw |-> FALSE] ELSE [log |-> Append(log, row), threw |-> FALSE]

SessionIds == 1..Len(sessions)

\* the lowest active row of a user, 0 when there is none
firstActive(ss, u) ==
  IF \E i \in 1..Len(ss) : ss[i].userId = u /\ ss[i].isActive
  THEN CHOOSE i \in 1..Len(ss) :
         /\ ss[i].userId = u /\ ss[i].isActive
         /\ \A j \in 1..Len(ss) : (ss[j].userId = u /\ ss[j].isActive) => i <= j
  ELSE 0

\* a faulty updateMany that closes one row of the user instead of all of them
closeOneSession(ss, u) ==
  [i \in 1..Len(ss) |-> IF i = firstActive(ss, u)
                        THEN [ss[i] EXCEPT !.isActive = FALSE] ELSE ss[i]]

\* a faulty updateMany that closes no row
keepSessions(ss, u) == ss

\* prisma.userSession.updateMany({where: {userId, isActive: true}, data: {isActive: false}})
logoutSessions(ss, u) ==
  [i \in 1..Len(ss) |-> IF ss[i].userId = u /\ ss[i].isActive
                        THEN [ss[i] EXCEPT !.isActive = FALSE] ELSE ss[i]]

changePasswordSessions(ss, u) ==
  [i \in 1..Len(ss) |-> IF ss[i].userId = u /\ ss[i].isActive
                        THEN [ss[i] EXCEPT !.isActive = FALSE] ELSE ss[i]]

\* prisma.userSession.updateMany({where: {userId: id}, data: {isActive: false}})
deleteUserSessions(ss, u) ==
  [i \in 1..Len(ss) |-> IF ss[i].userId = u THEN [ss[i] EXCEPT !.isActive = FALSE] ELSE ss[i]]

\* prisma.terminalSession.updateMany({where: {userId: id}, data: {isActive: false}})
deleteUserTerminals(tt, u) ==
  [i \in 1..Len(tt) |-> IF tt[i].userId = u THEN [tt[i] EXCEPT !.isActive = FALSE] ELSE tt[i]]

activeCount(ss, u) == Cardinality({i \in 1..Len(ss) : ss[i].userId = u /\ ss[i].isActive})

\* ------------------------------------------------------------------- init
InitAuth ==
  /\ now = 0
  /\ ticks = 0
  /\ env = "15m"
  /\ logFails = FALSE
  /\ users = [u \in UserIds |->
                [id |-> u, username |-> u, passwordHash |-> hashPassword(SeedPassword(u)),
                 email |-> SeedEmail(u),
                 accessLevel |-> SeedLevel(u), isActive |-> TRUE, lastLogin |-> -1]]
  /\ sessions = <<>>
  /\ securityLog = <<>>
  /\ reqs = [s \in Slots |-> Idle]
  /\ nReq = 0
  /\ issuedAccess = {}
  /\ issuedRefresh = {}
  /\ loggedOut = [u \in UserIds |-> FALSE]
  /\ pwChanged = [u \in UserIds |-> FALSE]

\* ------------------------------------------------------------------ clock
Advance(d) ==
  /\ ticks < MaxTicks
  /\ now' = now + d
  /\ ticks' = ticks + 1
  /\ UNCHANGED <<env, logFails, browser, security, client, users, sessions, securityLog, reqs, nReq,
                 issuedAccess, issuedRefresh, loggedOut, pwChanged>>
  /\ UNCHANGED <<fsVars, termVars>>

\* ------------------------------------------------------- frames and helpers
\* a request suspends in the lowest idle slot (slots are anonymous)
FreeSlot(s) == reqs[s] = Idle /\ \A r \in Slots : r < s => reqs[r] # Idle

\* a faulty middleware that trusts the token and does not test the user's flag
authenticateTokenAnyUser(tok) ==
  IF verifyAccessToken(tok, now) # "ok" THEN verifyAccessToken(tok, now)
  ELSE IF tok.userId \notin DOMAIN users THEN "User not found"
  ELSE "ok"

\* authenticateToken: the error of the 401 answer, or "ok" when next() is called
authenticateToken(tok) ==
  IF verifyAccessToken(tok, now) # "ok" THEN verifyAccessToken(tok, now)
  ELSE IF tok.userId \notin DOMAIN users THEN "User not found"
  ELSE IF ~users[tok.userId].isActive THEN "Account is deactivated"
  ELSE "ok"

\* a faulty guard that lets every access level through
allowAnyLevel(levels, userLevel) == "ok"

\* requireAccessLevel(levels), reading req.user.accessLevel
requireAccessLevel(levels, userLevel) ==
  IF userLevel \in levels THEN "ok" ELSE "Insufficient access level"

requireAdmin(userLevel) == requireAccessLevel({"ADMIN"}, userLevel)

\* the middleware authenticateToken in front of a route: its 401 answer, or
\* next() with req.user set to the row it selected
AuthenticateRequest(tok) ==
  /\ resp' = IF authenticateToken(tok) # "ok"
             THEN [route |-> "authenticateToken", status |-> 401,
                   message |-> authenticateToken(tok), token |-> tok]
             ELSE [route |-> "authenticateToken", status |-> 0, message |-> "next",
                   token |-> tok,
                   user |-> [id |-> users[tok.userId].id,
                             username |-> users[tok.userId].username,
                             email |-> users[tok.userId].email,
                             accessLevel |-> users[tok.userId].accessLevel,
                             isActive |-> users[tok.userId].isActive,
                             lastLogin |-> users[tok.userId].lastLogin]]
  /\ UNCHANGED <<now, ticks, env, logFails, browser, security, users, sessions, securityLog,
                 reqs, nReq, issuedAccess, issuedRefresh, loggedOut, pwChanged>>
  /\ UNCHANGED <<fs, termVars>>

\* tokens a client can present: the ones it was handed, or garbage
AccessInputs == issuedAccess \cup {GarbageToken}
RefreshInputs == issuedRefresh \cup {GarbageToken}

\* ------------------------------------------------------------------ login
\* a faulty check that does not look at the active flag
loginErrorPasswordOnly(username, password) ==
  IF username \notin DOMAIN users THEN "Invalid credentials"
  ELSE IF ~comparePassword(password, users[username].passwordHash) THEN "Invalid credentials"
  ELSE "ok"

\* authenticateUser up to the password check: the error thrown, or "ok"
loginError(username, password) ==
  IF username \notin DOMAIN users THEN "Invalid credentials"
  ELSE IF ~users[username].isActive THEN "Account is deactivated"
  ELSE IF ~comparePassword(password, users[username].passwordHash) THEN "Invalid credentials"
  ELSE "ok"

loginDeniedRow(username, password) ==
  IF username \notin DOMAIN users
  THEN LogRow("null", "ACCESS_DENIED", "Login attempt with non-existent username")
  ELSE IF ~users[username].isActive
  THEN LogRow(username, "ACCESS_DENIED", "Login attempt with deactivated account")
  ELSE LogRow(username, "ACCESS_DENIED", "Login attempt with invalid password")

\* authenticateUser, lines 287-336: find the user, check active flag and password
LoginCheck(s, username, password) ==
  /\ FreeSlot(s)
  /\ nReq < MaxRequests
  /\ nReq' = nReq + 1
  /\ IF loginError(username, password) # "ok"
     THEN LET ev == logSecurityEvent(securityLog, loginDeniedRow(username, password))
          IN /\ securityLog' = ev.log
             /\ resp' = thrown("POST /auth/login",
                               IF ev.threw THEN LogWriteError ELSE loginError(username, password))
             /\ UNCHANGED reqs
     ELSE /\ reqs' = [reqs EXCEPT ![s] = [op |-> "login", user |-> users[username]]]
          /\ UNCHANGED <<securityLog, resp>>
  /\ UNCHANGED <<now, ticks, env, logFails, browser, security, client, users, sessions, issuedAccess, issuedRefresh, loggedOut, pwChanged>>
  /\ UNCHANGED <<fs, termVars>>

\* a faulty create that stores the row closed
closedSessionRow(userId, tokens, expiresAt) ==
  [userId |-> userId, tokenHash |-> hashToken(tokens.accessToken),
   refreshTokenHash |-> hashToken(tokens.refreshToken),
   expiresAt |-> expiresAt, isActive |-> FALSE]

\* the data of prisma.userSession.create
newSessionRow(userId, tokens, expiresAt) ==
  [userId |-> userId, tokenHash |-> hashToken(tokens.accessToken),
   refreshTokenHash |-> hashToken(tokens.refreshToken),
   expiresAt |-> expiresAt, isActive |-> TRUE]

\* authenticateUser, lines 338-379: last-login, LOGIN event, tokens, session row;
\* a throw of getTokenExpiration leaves the first two behind and no row
LoginCommit(s) ==
  /\ reqs[s].op = "login"
  /\ LET user == reqs[s].user
         tokens == generateTokenPair(user, now)
         expiresAt == getTokenExpiration(env, now)
         ev == logSecurityEvent(securityLog, LogRow(user.id, "LOGIN", "User logged in successfully"))
     IN /\ users' = [users EXCEPT ![user.id].lastLogin = now]
        /\ securityLog' = ev.log
        /\ IF ev.threw
           THEN /\ resp' = thrown("POST /auth/login", LogWriteError)
                /\ UNCHANGED <<sessions, issuedAccess, issuedRefresh, loggedOut, pwChanged>>
           ELSE IF expiresAt < 0
           THEN /\ resp' = thrown("POST /auth/login", "Cannot read properties of undefined")
                /\ UNCHANGED <<sessions, issuedAccess, issuedRefresh, loggedOut, pwChanged>>
           ELSE /\ resp' = HttpResp("POST /auth/login", 200, "Authentication successful")
                /\ sessions' = Append(sessions, newSessionRow(user.id, tokens, expiresAt))
                /\ issuedAccess' = issuedAccess \cup {tokens.accessToken}
                /\ issuedRefresh' = issuedRefresh \cup {tokens.refreshToken}
                /\ loggedOut' = [loggedOut EXCEPT ![user.id] = FALSE]
                /\ pwChanged' = [pwChanged EXCEPT ![user.id] = FALSE]
  /\ reqs' = [reqs EXCEPT ![s] = Idle]
  /\ UNCHANGED <<now, ticks, env, logFails, browser, security, client, nReq>>
  /\ UNCHANGED <<fs, termVars>>

\* authenticateUser, lines 338-379, when prisma.userSession.create rejects: the
\* last-login update and the LOGIN event are written before it, the error
\* reaches the route's error handler and no tokens are returned
LoginCommitFails(s) ==
  /\ reqs[s].op = "login"
  /\ LET user == reqs[s].user
         ev == logSecurityEvent(securityLog, LogRow(user.id, "LOGIN", "User logged in successfully"))
     IN /\ users' = [users EXCEPT ![user.id].lastLogin = now]
        /\ securityLog' = ev.log
        /\ resp' = IF ev.threw THEN thrown("POST /auth/login", LogWriteError)
                   ELSE thrown("POST /auth/login", "Can't reach database server")
  /\ reqs' = [reqs EXCEPT ![s] = Idle]
  /\ UNCHANGED <<now, ticks, env, logFails, browser, security, client, sessions, nReq,
                 issuedAccess, issuedRefresh, loggedOut, pwChanged>>
  /\ UNCHANGED <<fs, termVars>>

\* ---------------------------------------------------------------- refresh
\* the active rows refreshTokens' findFirst looks for
matchingSessions(tok) ==
  {i \in SessionIds : /\ sessions[i].userId = tok.userId
                      /\ sessions[i].refreshTokenHash = hashToken(tok)
                      /\ sessions[i].isActive}

\* the error refreshTokens throws for a token, or "ok". The hashToken it calls
\* is the one it destructures from utils/helpers, which exports none: the call
\* in the where clause of findFirst is a TypeError, thrown before the query
refreshError(tok) ==
  IF verifyRefreshToken(tok, now) # "ok" THEN verifyRefreshToken(tok, now)
  ELSE IF tok.userId \notin DOMAIN users \/ ~users[tok.userId].isActive
  THEN "Invalid refresh token"
  ELSE IF "hashToken" \notin helpersExports THEN "hashToken is not a function"
  ELSE IF matchingSessions(tok) = {} THEN "Invalid refresh token"
  ELSE "ok"

\* POST /auth/refresh + refreshTokens (the server's side: what the calling
\* client does with the answer is the caller's): every call ends in a throw, which
\* errorHandler answers with 500 and the message; a missing or inactive user is
\* logged first. Lines 436-454 (the rotation) are never reached.
RefreshTokens(tok) ==
  /\ refreshError(tok) # "ok"
  /\ nReq < MaxRequests
  /\ nReq' = nReq + 1
  /\ LET denied == /\ verifyRefreshToken(tok, now) = "ok"
                    /\ (tok.userId \notin DOMAIN users \/ ~users[tok.userId].isActive)
         ev == logSecurityEvent(securityLog,
                 LogRow(tok.userId, "ACCESS_DENIED", "Token refresh with invalid/expired token"))
     IN /\ securityLog' = IF denied THEN ev.log ELSE securityLog
        /\ resp' = thrown("POST /auth/refresh",
                          IF denied /\ ev.threw THEN LogWriteError ELSE refreshError(tok))
  /\ UNCHANGED <<now, ticks, env, logFails, browser, security, users, sessions, reqs, issuedAccess, issuedRefresh,
                 loggedOut, pwChanged>>
  /\ UNCHANGED <<fs, termVars>>

\* a request part that carries no refresh token
NoToken == [kind |-> "undefined"]

\* validators.refreshToken: schemas.refreshToken requires body.refreshToken, so
\* validate answers 400 itself and never calls next() for a body without one
validateRefreshToken(body) == body # NoToken

\* POST /auth/refresh, the route: the validator, then body token || cookie token
\* handed to refreshTokens (a body that passed the validator has a token, so the
\* 401 'Refresh token required' of the handler is never sent)
PostRefresh(body, cookie) ==
  IF ~validateRefreshToken(body)
  THEN /\ nReq < MaxRequests
       /\ nReq' = nReq + 1
       /\ resp' = HttpResp("POST /auth/refresh", 400, "Validation failed")
       /\ UNCHANGED <<now, ticks, env, logFails, browser, security, users, sessions, securityLog, reqs,
                      issuedAccess, issuedRefresh, loggedOut, pwChanged>>
       /\ UNCHANGED <<fs, termVars>>
  ELSE RefreshTokens(body)

\* ----------------------------------------------------------------- logout
\* POST /auth/logout + logoutUser: every active row of the token's user closed;
\* a token that does not verify only clears the cookie
Logout(tok) ==
  /\ nReq < MaxRequests
  /\ nReq' = nReq + 1
  /\ IF verifyAccessToken(tok, now) = "ok"
     THEN LET ev == logSecurityEvent(securityLog,
                     LogRowMeta(tok.userId, "LOGOUT", "User logged out",
                                activeCount(sessions, tok.userId)))
          IN /\ sessions' = logoutSessions(sessions, tok.userId)
             /\ securityLog' = ev.log
             /\ loggedOut' = [loggedOut EXCEPT ![tok.userId] = TRUE]
             /\ resp' = IF ev.threw THEN thrown("POST /auth/logout", LogWriteError)
                        ELSE HttpResp("POST /auth/logout", 200, "Logged out successfully")
     ELSE /\ resp' = HttpResp("POST /auth/logout", 200, "Logged out successfully")
          /\ UNCHANGED <<sessions, securityLog, loggedOut>>
  /\ UNCHANGED <<now, ticks, env, logFails, browser, security, client, users, reqs, issuedAccess, issuedRefresh, pwChanged>>
  /\ UNCHANGED <<fs, termVars>>

\* a faulty check that accepts any current password
changePasswordErrorAnyPassword(tok, current) ==
  IF verifyAccessToken(tok, now) # "ok" THEN verifyAccessToken(tok, now)
  ELSE IF tok.userId \notin DOMAIN users \/ ~users[tok.userId].isActive
       THEN "User not found or inactive"
  ELSE "ok"

\* -------------------------------------------------------- change password
\* POST /auth/change-password + changePassword: the error, or "ok"
changePasswordError(tok, current) ==
  IF verifyAccessToken(tok, now) # "ok" THEN verifyAccessToken(tok, now)
  ELSE IF tok.userId \notin DOMAIN users \/ ~users[tok.userId].isActive
       THEN "User not found or inactive"
  ELSE IF ~comparePassword(current, users[tok.userId].passwordHash)
       THEN "Current password is incorrect"
  ELSE "ok"

\* the catch of the change-password route: its own translation of the error
changePasswordAnswer(error) ==
  IF error = "ok"
  THEN HttpResp("POST /auth/change-password", 200, "Password changed successfully. Please login again.")
  ELSE IF error = "Access token expired"
  THEN HttpResp("POST /auth/change-password", 401, "Access token expired")
  ELSE IF error = "Current password is incorrect"
  THEN HttpResp("POST /auth/change-password", 400, error)
  ELSE HttpResp("POST /auth/change-password", 500, "Password change failed")

ChangePassword(tok, current, new) ==
  /\ nReq < MaxRequests
  /\ nReq' = nReq + 1
  /\ IF changePasswordError(tok, current) = "ok"
     THEN LET ev == logSecurityEvent(securityLog,
                     LogRow(tok.userId, "LOGIN", "Password changed successfully"))
          IN /\ users' = [users EXCEPT ![tok.userId].passwordHash = hashPassword(new)]
             /\ sessions' = changePasswordSessions(sessions, tok.userId)
             /\ securityLog' = ev.log
             /\ pwChanged' = [pwChanged EXCEPT ![tok.userId] = TRUE]
             /\ resp' = changePasswordAnswer(IF ev.threw THEN LogWriteError ELSE "ok")
     ELSE LET incorrect == changePasswordError(tok, current) = "Current password is incorrect"
              ev == logSecurityEvent(securityLog,
                      LogRow(tok.userId, "SUSPICIOUS",
                             "Password change attempt with invalid current password"))
          IN /\ securityLog' = IF incorrect THEN ev.log ELSE securityLog
             /\ resp' = changePasswordAnswer(IF incorrect /\ ev.threw THEN LogWriteError
                                             ELSE changePasswordError(tok, current))
             /\ UNCHANGED <<users, sessions, pwChanged>>
  /\ UNCHANGED <<now, ticks, env, logFails, browser, security, client, reqs, issuedAccess, issuedRefresh, loggedOut>>
  /\ UNCHANGED <<fs, termVars>>

\* ------------------------------------------------------ user administration
\* the checks of an admin-only /api/users/:id route before its handler body
adminRouteError(tok, id) ==
  IF authenticateToken(tok) # "ok" THEN authenticateToken(tok)
  ELSE IF requireAdmin(users[tok.userId].accessLevel) # "ok" THEN "Insufficient access level"
  ELSE IF id \notin DOMAIN users THEN "User not found"
  ELSE "ok"

\* the answer of a users route: 401 from authenticateToken, 403 from the
\* access guards, 400 from validation and the self-deactivation check, 404 and
\* 409 from the handlers
usersRouteAnswer(route, tok, error) ==
  HttpResp(route,
           IF error = "ok" THEN 200
           ELSE IF authenticateToken(tok) # "ok" THEN 401
           ELSE IF error \in {"Insufficient access level",
                              "Access denied - can only access your own resources"} THEN 403
           ELSE IF error = "User not found" THEN 404
           ELSE IF error = "Email already exists" THEN 409
           ELSE 400,
           error)

deleteUserError(tok, id) ==
  IF adminRouteError(tok, id) # "ok" THEN adminRouteError(tok, id)
  ELSE IF id = tok.userId THEN "Cannot deactivate your own account"
  ELSE "ok"

\* DELETE /api/users/:id, lines 253-282: checks, then the user row set inactive
DeleteUserStart(s, tok, id) ==
  /\ FreeSlot(s)
  /\ nReq < MaxRequests
  /\ nReq' = nReq + 1
  /\ IF deleteUserError(tok, id) = "ok"
     THEN /\ users' = [users EXCEPT ![id].isActive = FALSE]
          /\ reqs' = [reqs EXCEPT ![s] = [op |-> "deactivate", id |-> id]]
          /\ UNCHANGED resp
     ELSE /\ resp' = usersRouteAnswer("DELETE /users/:id", tok, deleteUserError(tok, id))
          /\ UNCHANGED <<users, reqs>>
  /\ UNCHANGED <<now, ticks, env, logFails, browser, security, client, sessions, securityLog, issuedAccess, issuedRefresh, loggedOut, pwChanged>>
  /\ UNCHANGED <<fs, termVars>>

\* DELETE /api/users/:id, lines 284-301: the user's sessions and terminals closed
DeleteUserSessions(s) ==
  /\ reqs[s].op = "deactivate"
  /\ sessions' = deleteUserSessions(sessions, reqs[s].id)
  /\ term' = deleteUserTerminals(term, reqs[s].id)
  /\ reqs' = [reqs EXCEPT ![s] = Idle]
  /\ resp' = usersRouteAnswer("DELETE /users/:id", GarbageToken, "ok")
  /\ UNCHANGED <<now, ticks, env, logFails, browser, security, client, users, securityLog, nReq, issuedAccess, issuedRefresh, loggedOut, pwChanged>>
  /\ UNCHANGED <<fs, execs, nExec>>

\* a faulty reactivation that also reopens the user's sessions and terminals
ReactivateUserSessions(tok, id) ==
  /\ nReq < MaxRequests
  /\ nReq' = nReq + 1
  /\ users' = IF adminRouteError(tok, id) = "ok"
              THEN [users EXCEPT ![id].isActive = TRUE] ELSE users
  /\ sessions' = IF adminRouteError(tok, id) = "ok"
                 THEN [i \in DOMAIN sessions |->
                         IF sessions[i].userId = id
                         THEN [sessions[i] EXCEPT !.isActive = TRUE] ELSE sessions[i]]
                 ELSE sessions
  /\ term' = IF adminRouteError(tok, id) = "ok"
             THEN [i \in DOMAIN term |->
                     IF term[i].userId = id
                     THEN [term[i] EXCEPT !.isActive = TRUE] ELSE term[i]]
             ELSE term
  /\ resp' = usersRouteAnswer("POST /users/:id/reactivate", tok, adminRouteError(tok, id))
  /\ UNCHANGED <<now, ticks, env, logFails, browser, security, client, securityLog, reqs,
                 issuedAccess, issuedRefresh, loggedOut, pwChanged>>
  /\ UNCHANGED <<fs, execs, nExec>>

\* POST /api/users/:id/reactivate
ReactivateUser(tok, id) ==
  /\ nReq < MaxRequests
  /\ nReq' = nReq + 1
  /\ users' = IF adminRouteError(tok, id) = "ok"
              THEN [users EXCEPT ![id].isActive = TRUE] ELSE users
  /\ resp' = usersRouteAnswer("POST /users/:id/reactivate", tok, adminRouteError(tok, id))
  /\ UNCHANGED <<now, ticks, env, logFails, browser, security, client, sessions, securityLog, reqs, issuedAccess, issuedRefresh, loggedOut, pwChanged>>
  /\ UNCHANGED <<fs, termVars>>

\* validate(schemas.updateProfile) with stripUnknown: only username/email survive
validateUpdateProfile(body) == [email |-> body.email]

\* requireSelfOrAdmin
requireSelfOrAdmin(user, targetUserId) ==
  IF user.accessLevel = "ADMIN" \/ user.id = targetUserId THEN "ok"
  ELSE "Access denied - can only access your own resources"

\* PUT /api/users/:id: the error, or "ok"
putUserError(tok, id, body) ==
  IF authenticateToken(tok) # "ok" THEN authenticateToken(tok)
  ELSE IF requireSelfOrAdmin(users[tok.userId], id) # "ok"
       THEN requireSelfOrAdmin(users[tok.userId], id)
  ELSE IF validateUpdateProfile(body).email = "undefined" THEN "Validation failed"
  ELSE IF id \notin DOMAIN users THEN "User not found"
  ELSE IF \E o \in DOMAIN users : o # id /\ users[o].email = validateUpdateProfile(body).email
       THEN "Email already exists"
  ELSE "ok"

\* the update PUT /api/users/:id writes: req.body is what validation left of the
\* body, so the isActive branch (lines 216-223) never sees a value
putUserData(row, body) ==
  [row EXCEPT !.email = validateUpdateProfile(body).email]

\* PUT /api/users/:id, lines 162-247
PutUser(tok, id, body) ==
  /\ nReq < MaxRequests
  /\ nReq' = nReq + 1
  /\ users' = IF putUserError(tok, id, body) = "ok"
              THEN [users EXCEPT ![id] = putUserData(@, body)] ELSE users
  /\ resp' = usersRouteAnswer("PUT /users/:id", tok, putUserError(tok, id, body))
  /\ UNCHANGED <<now, ticks, env, logFails, browser, security, client, sessions, securityLog, reqs, issuedAccess, issuedRefresh, loggedOut, pwChanged>>
  /\ UNCHANGED <<fs, termVars>>

\* ------------------------------------------------------- filesystem routes
FsRow(name, path, type, content, parentId, accessLevel) ==
  [name |-> name, path |-> path, type |-> type, content |-> content,
   parentId |-> parentId, accessLevel |-> accessLevel, isActive |-> TRUE]

\* the tree the seed script creates; an id is the position of the row, and a
\* parentId of 0 is null
SeedFs ==
  << FsRow("root", Root, "DIRECTORY", "null", 0, "PUBLIC"),
     FsRow("system", <<"", "system">>, "DIRECTORY", "null", 1, "ADMIN"),
     FsRow("military", <<"", "military">>, "DIRECTORY", "null", 1, "MILITARY"),
     FsRow("research", <<"", "research">>, "DIRECTORY", "null", 1, "RESEARCHER"),
     FsRow("community", <<"", "community">>, "DIRECTORY", "null", 1, "PUBLIC"),
     FsRow("readme.txt", <<"", "readme.txt">>, "FILE", "Welcome to Phoenix Industries", 1, "PUBLIC"),
     FsRow("system_status.log", <<"", "system", "system_status.log">>, "FILE",
           "All systems operational", 2, "ADMIN"),
     FsRow("deployment_orders.txt", <<"", "military", "deployment_orders.txt">>, "FILE",
           "CLASSIFIED: Military Deployment Orders", 3, "MILITARY"),
     FsRow("research_notes.md", <<"", "research", "research_notes.md">>, "FILE",
           "# Research Notes", 4, "RESEARCHER"),
     FsRow("profiles", <<"", "community", "profiles">>, "DIRECTORY", "null", 5, "PUBLIC"),
     FsRow("leaders", <<"", "community", "leaders">>, "DIRECTORY", "null", 5, "PUBLIC"),
     FsRow("drones", <<"", "drones">>, "DIRECTORY", "null", 1, "MILITARY") >>

FsIds == 1..Len(fs)

\* values of ?path= a listing may name
FsPaths == {Root, <<"", "system">>, <<"", "military">>, <<"", "research">>, <<"", "ghost">>}

\* what follows /filesystem/ in the URL of a file read
FsParams == {<<"readme.txt">>, <<"system", "system_status.log">>,
             <<"military", "deployment_orders.txt">>, <<"research", "research_notes.md">>,
             <<"research", "notes.txt">>, <<"ghost.txt">>}

\* ids a :id route parameter may carry (0 names no node)
FsIdParams == {0, 3, 6, 8}

\* bodies of POST /filesystem after validators.createFile
CreateBodies ==
  { [name |-> "notes.txt", path |-> <<"", "research", "notes.txt">>, type |-> "FILE",
     content |-> "field notes", parentId |-> 4, accessLevel |-> "RESEARCHER"],
    [name |-> "readme.txt", path |-> <<"", "readme.txt">>, type |-> "FILE",
     content |-> "undefined", parentId |-> 1, accessLevel |-> "PUBLIC"] }

\* bodies of PUT /filesystem/:id after validators.updateFile
UpdateBodies ==
  { [name |-> "undefined", content |-> "edited", accessLevel |-> "undefined"],
    [name |-> "undefined", content |-> "undefined", accessLevel |-> "PUBLIC"] }

\* the OR of the where clauses: {accessLevel: 'PUBLIC'}, {accessLevel: userAccessLevel},
\* {accessLevel: 'ADMIN'}
visibleWhere(row, userAccessLevel) ==
  row.accessLevel \in {"PUBLIC", userAccessLevel, "ADMIN"}

\* prisma.fileSystem.findFirst({where: {path, type, isActive: true, OR: [...]}}): an id, or 0
findVisible(path, type, userAccessLevel) ==
  LET hits == {i \in FsIds : /\ fs[i].path = path /\ fs[i].type = type /\ fs[i].isActive
                             /\ visibleWhere(fs[i], userAccessLevel)}
  IN IF hits = {} THEN 0 ELSE CHOOSE i \in hits : \A j \in hits : i <= j

\* prisma.fileSystem.findMany({where: {parentId, isActive: true, OR: [...]}})
childrenVisible(parentId, userAccessLevel) ==
  {i \in FsIds : /\ fs[i].parentId = parentId /\ fs[i].isActive
                 /\ visibleWhere(fs[i], userAccessLevel)}

\* a faulty lookup that finds no row
noPathFound(rows, path) == 0

\* prisma.fileSystem.findFirst({where: {path}}): an id, or 0
findByPath(rows, path) ==
  LET hits == {i \in 1..Len(rows) : rows[i].path = path}
  IN IF hits = {} THEN 0 ELSE CHOOSE i \in hits : \A j \in hits : i <= j

\* GET /api/terminal/filesystem?path=...
FsList(u, path) ==
  /\ users[u].isActive
  /\ LET level == users[u].accessLevel
         dir == findVisible(path, "DIRECTORY", level)
     IN resp' = IF path = Root
                THEN FsResp("GET /filesystem", level, path, 0, 200, childrenVisible(0, level), "")
                ELSE IF dir = 0
                THEN FsResp("GET /filesystem", level, path, 0, 404, {}, "")
                ELSE FsResp("GET /filesystem", level, path, dir, 200, childrenVisible(dir, level), "")
  /\ UNCHANGED <<authVars, fs, termVars>>

\* GET /api/terminal/filesystem/*
FsRead(u, param) ==
  /\ users[u].isActive
  /\ LET level == users[u].accessLevel
         path == slash(param)
         file == findVisible(path, "FILE", level)
     IN resp' = IF file = 0
                THEN FsResp("GET /filesystem/*", level, path, 0, 404, {}, "")
                ELSE FsResp("GET /filesystem/*", level, path, file, 200, {file}, fs[file].content)
  /\ UNCHANGED <<authVars, fs, termVars>>

\* POST /api/terminal/filesystem up to the create: requireAdmin, then findFirst({where: {path}})
FsCreateFind(s, u, body) ==
  /\ users[u].isActive
  /\ nReq < MaxRequests
  /\ FreeSlot(s)
  /\ nReq' = nReq + 1
  /\ LET level == users[u].accessLevel
     IN IF requireAdmin(level) # "ok"
        THEN /\ resp' = FsResp("POST /filesystem", level, body.path, 0, 403, {}, "")
             /\ reqs' = reqs
        ELSE IF findByPath(fs, body.path) # 0
        THEN /\ resp' = FsResp("POST /filesystem", level, body.path, 0, 409, {}, "")
             /\ reqs' = reqs
        ELSE /\ resp' = resp
             /\ reqs' = [reqs EXCEPT ![s] = [op |-> "create", level |-> level, body |-> body]]
  /\ UNCHANGED <<now, ticks, env, logFails, browser, security, client, users, sessions, securityLog,
                 issuedAccess, issuedRefresh, loggedOut, pwChanged>>
  /\ UNCHANGED <<fs, termVars>>

\* the row prisma.fileSystem.create writes
createData(body) ==
  [name |-> body.name, path |-> body.path, type |-> body.type,
   content |-> IF body.type = "FILE"
               THEN (IF body.content = "undefined" THEN "" ELSE body.content) ELSE "null",
   parentId |-> body.parentId, accessLevel |-> body.accessLevel, isActive |-> TRUE]

\* POST /api/terminal/filesystem, the create: the unique index on path answers a
\* taken path with P2002, which errorHandler turns into 409
FsCreateInsert(s) ==
  /\ reqs[s].op = "create"
  /\ reqs' = [reqs EXCEPT ![s] = Idle]
  /\ LET body == reqs[s].body
     IN IF findByPath(fs, body.path) # 0
        THEN /\ fs' = fs
             /\ resp' = FsResp("POST /filesystem", reqs[s].level, body.path, 0, 409, {}, "")
        ELSE /\ fs' = Append(fs, createData(body))
             /\ resp' = FsResp("POST /filesystem", reqs[s].level, body.path, Len(fs) + 1, 201, {}, "")
  /\ UNCHANGED <<now, ticks, env, logFails, browser, security, client, users, sessions, securityLog, nReq,
                 issuedAccess, issuedRefresh, loggedOut, pwChanged>>
  /\ UNCHANGED termVars

\* updateData of PUT /filesystem/:id applied to the row
updateData(row, body) ==
  [row EXCEPT
     !.name = IF body.name # "undefined" THEN body.name ELSE @,
     !.content = IF body.content # "undefined" /\ row.type = "FILE" THEN body.content ELSE @,
     !.accessLevel = IF body.accessLevel # "undefined" THEN body.accessLevel ELSE @]

\* PUT /api/terminal/filesystem/:id
FsUpdate(u, id, body) ==
  /\ users[u].isActive
  /\ nReq < MaxRequests
  /\ nReq' = nReq + 1
  /\ LET level == users[u].accessLevel
     IN IF requireAdmin(level) # "ok"
        THEN /\ resp' = FsResp("PUT /filesystem/:id", level, EmptyStr, id, 403, {}, "")
             /\ fs' = fs
        ELSE IF id \notin FsIds
        THEN /\ resp' = FsResp("PUT /filesystem/:id", level, EmptyStr, id, 404, {}, "")
             /\ fs' = fs
        ELSE /\ resp' = FsResp("PUT /filesystem/:id", level, EmptyStr, id, 200, {}, "")
             /\ fs' = [fs EXCEPT ![id] = updateData(fs[id], body)]
  /\ UNCHANGED <<now, ticks, env, logFails, browser, security, client, users, sessions, securityLog, reqs,
                 issuedAccess, issuedRefresh, loggedOut, pwChanged>>
  /\ UNCHANGED termVars

\* a faulty delete that also clears the active flag of the node's children
FsDeleteCascade(u, id) ==
  /\ users[u].isActive
  /\ nReq < MaxRequests
  /\ nReq' = nReq + 1
  /\ LET level == users[u].accessLevel
     IN IF requireAdmin(level) # "ok"
        THEN /\ resp' = FsResp("DELETE /filesystem/:id", level, EmptyStr, id, 403, {}, "")
             /\ fs' = fs
        ELSE IF id \notin FsIds
        THEN /\ resp' = FsResp("DELETE /filesystem/:id", level, EmptyStr, id, 404, {}, "")
             /\ fs' = fs
        ELSE /\ resp' = FsResp("DELETE /filesystem/:id", level, EmptyStr, id, 200, {}, "")
             /\ fs' = [i \in FsIds |->
                         IF i = id \/ fs[i].parentId = id
                         THEN [fs[i] EXCEPT !.isActive = FALSE] ELSE fs[i]]
  /\ UNCHANGED <<now, ticks, env, logFails, browser, security, client, users, sessions, securityLog, reqs,
                 issuedAccess, issuedRefresh, loggedOut, pwChanged>>
  /\ UNCHANGED termVars

\* DELETE /api/terminal/filesystem/:id: a soft delete of the one row
FsDelete(u, id) ==
  /\ users[u].isActive
  /\ nReq < MaxRequests
  /\ nReq' = nReq + 1
  /\ LET level == users[u].accessLevel
     IN IF requireAdmin(level) # "ok"
        THEN /\ resp' = FsResp("DELETE /filesystem/:id", level, EmptyStr, id, 403, {}, "")
             /\ fs' = fs
        ELSE IF id \notin FsIds
        THEN /\ resp' = FsResp("DELETE /filesystem/:id", level, EmptyStr, id, 404, {}, "")
             /\ fs' = fs
        ELSE /\ resp' = FsResp("DELETE /filesystem/:id", level, EmptyStr, id, 200, {}, "")
             /\ fs' = [fs EXCEPT ![id].isActive = FALSE]
  /\ UNCHANGED <<now, ticks, env, logFails, browser, security, client, users, sessions, securityLog, reqs,
                 issuedAccess, issuedRefresh, loggedOut, pwChanged>>
  /\ UNCHANGED termVars

\* ---------------------------------------------------------- terminal service
\* A command line is modelled by its words (the split(/\s+/) of the trimmed
\* text), each word by its split('/'): "cat system/system_status.log" is
\* << <<"cat">>, <<"system", "system_status.log">> >>. An output is a sequence
\* of such pieces of text.
ValidTerminalTypes == {"MILITARY", "RESEARCHER", "FILESYSTEM", "EMERGENCY"}
TermIds == 1..Len(term)
Text(s) == << <<s>> >>

\* sanitizeInput: strips < and >, javascript: and on...= from the text, then trims
sanitizeText(w) ==
  IF w = "<pwd>" THEN "pwd" ELSE IF w = "javascript:help" THEN "help" ELSE w

sanitizeInput(cmd) == [i \in DOMAIN cmd |-> [j \in DOMAIN cmd[i] |-> sanitizeText(cmd[i][j])]]

\* String.prototype.toLowerCase on the verbs of the model
toLowerCase(w) == IF w = "LS" THEN "ls" ELSE IF w = "CAT" THEN "cat" ELSE w

\* parseCommand: the first word lowercased, the other words (the verbs of the
\* model hold no '/')
parseCommand(cmd) == [command |-> toLowerCase(cmd[1][1]), args |-> Tail(cmd)]

\* a is a prefix of b, for the texts between two slashes that the model uses
strPrefix(a, b) ==
  \/ a = ""
  \/ a = b
  \/ <<a, b>> \in {<<"research", "research_notes.md">>, <<"system", "system_status.log">>}

\* String.prototype.startsWith on two strings split at '/'
startsWith(str, prefix) ==
  /\ Len(str) >= Len(prefix)
  /\ \A i \in 1..(Len(prefix) - 1) : str[i] = prefix[i]
  /\ strPrefix(prefix[Len(prefix)], str[Len(prefix)])

\* session.currentDirectory || '/'
dirOr(session) == IF session.currentDirectory = EmptyStr THEN Root ELSE session.currentDirectory

\* handleListCommand: findMany({path: {startsWith}, isActive: true, parentId: null at
\* the root and not filtered elsewhere}), one line per item
handleListCommand(args, session) ==
  LET currentPath == dirOr(session)
      items == {i \in FsIds :
                  /\ startsWith(fs[i].path, IF currentPath = Root THEN EmptyStr ELSE currentPath)
                  /\ fs[i].isActive
                  /\ (currentPath = Root => fs[i].parentId = 0)}
      ids == SelectSeq([i \in FsIds |-> i], LAMBDA i : i \in items)
  IN IF items = {}
     THEN [output |-> Text("Directory is empty."), success |-> TRUE,
           setDirectory |-> EmptyStr]
     ELSE [output |-> [k \in DOMAIN ids |->
                         <<IF fs[ids[k]].type = "DIRECTORY" THEN "DIR" ELSE "FILE",
                           fs[ids[k]].name>>],
           success |-> TRUE, setDirectory |-> EmptyStr]

\* a faulty newPath that takes '..' for the name of a directory
cdAppend(currentPath, targetPath) ==
  IF currentPath = Root THEN slash(targetPath) ELSE currentPath \o targetPath

\* the newPath of handleChangeDirectoryCommand
cdPath(currentPath, targetPath) ==
  LET parts == SelectSeq(currentPath, LAMBDA x : x # "")
      popped == SubSeq(parts, 1, Len(parts) - 1)
  IN IF targetPath = <<"..">> THEN <<"">> \o (IF popped = <<>> THEN <<"">> ELSE popped)
     ELSE IF targetPath = Root THEN Root
     ELSE IF targetPath[1] = "" /\ Len(targetPath) > 1 THEN targetPath
     ELSE IF currentPath = Root THEN slash(targetPath)
     ELSE currentPath \o targetPath

\* a faulty lookup by path alone
findAnyNode(path, type) ==
  LET hits == {i \in FsIds : fs[i].path = path}
  IN IF hits = {} THEN 0 ELSE CHOOSE i \in hits : \A j \in hits : i <= j

\* prisma.fileSystem.findFirst({where: {path, type, isActive: true}}): an id, or 0
findActive(path, type) ==
  LET hits == {i \in FsIds : fs[i].path = path /\ fs[i].type = type /\ fs[i].isActive}
  IN IF hits = {} THEN 0 ELSE CHOOSE i \in hits : \A j \in hits : i <= j

\* handleChangeDirectoryCommand: the result, and the directory its
\* terminalSession.update writes (none when EmptyStr)
handleChangeDirectoryCommand(args, session) ==
  IF args = <<>>
  THEN [output |-> Text("Usage: cd <directory>"), success |-> FALSE,
        setDirectory |-> EmptyStr]
  ELSE LET newPath == cdPath(dirOr(session), args[1])
       IN IF findActive(newPath, "DIRECTORY") = 0
          THEN [output |-> << <<"Directory not found: ">>, args[1] >>, success |-> FALSE,
                setDirectory |-> EmptyStr]
          ELSE [output |-> << <<"Changed directory to: ">>, newPath >>, success |-> TRUE,
                setDirectory |-> newPath]

\* the filePath of handleReadFileCommand
catPath(currentPath, filename) ==
  IF currentPath = Root THEN slash(filename) ELSE currentPath \o filename

\* handleReadFileCommand: findFirst({where: {path, type: 'FILE', isActive: true}})
handleReadFileCommand(args, session) ==
  IF args = <<>>
  THEN [output |-> Text("Usage: cat <filename>"), success |-> FALSE,
        setDirectory |-> EmptyStr]
  ELSE LET file == findActive(catPath(dirOr(session), args[1]), "FILE")
       IN IF file = 0
          THEN [output |-> << <<"File not found: ">>, args[1] >>, success |-> FALSE,
                setDirectory |-> EmptyStr]
          ELSE [output |-> Text(fs[file].content), success |-> TRUE,
                setDirectory |-> EmptyStr]

\* a result of a handler that writes nothing
Plain(output, success, session) ==
  [output |-> output, success |-> success, setDirectory |-> EmptyStr]

executeFileSystemCommand(parsed, session) ==
  IF parsed.command \in {"ls", "dir"} THEN handleListCommand(parsed.args, session)
  ELSE IF parsed.command = "cd" THEN handleChangeDirectoryCommand(parsed.args, session)
  ELSE IF parsed.command \in {"cat", "type"} THEN handleReadFileCommand(parsed.args, session)
  ELSE IF parsed.command = "pwd" THEN Plain(<<dirOr(session)>>, TRUE, session)
  ELSE IF parsed.command = "help" THEN Plain(Text("Available commands:"), TRUE, session)
  ELSE IF parsed.command = "clear" THEN Plain(Text("ESC[2J ESC[0f"), TRUE, session)
  ELSE Plain(<< <<"Command not found: ">>, <<parsed.command>> >>, FALSE, session)

executeMilitaryCommand(parsed, session) ==
  IF parsed.command = "status" THEN Plain(Text("MILITARY TERMINAL STATUS"), TRUE, session)
  ELSE IF parsed.command = "deploy"
  THEN (IF parsed.args = <<>> THEN Plain(Text("Usage: deploy <unit_id>"), FALSE, session)
        ELSE Plain(<< <<"Unit ">>, parsed.args[1], <<" deployment initiated.">> >>, TRUE, session))
  ELSE IF parsed.command = "scan" THEN Plain(Text("Scanning perimeter..."), TRUE, session)
  ELSE IF parsed.command = "help" THEN Plain(Text("Military Commands:"), TRUE, session)
  ELSE IF parsed.command = "clear" THEN Plain(Text("ESC[2J ESC[0f"), TRUE, session)
  ELSE Plain(<< <<"Access denied. Command ">>, <<parsed.command>>, <<" not recognized.">> >>,
             FALSE, session)

executeResearcherCommand(parsed, session) ==
  IF parsed.command = "analyze" THEN Plain(Text("RESEARCH ANALYSIS"), TRUE, session)
  ELSE IF parsed.command = "research" THEN Plain(Text("Current Research Projects:"), TRUE, session)
  ELSE IF parsed.command = "data" THEN Plain(Text("Database Statistics:"), TRUE, session)
  ELSE IF parsed.command = "help" THEN Plain(Text("Research Commands:"), TRUE, session)
  ELSE IF parsed.command = "clear" THEN Plain(Text("ESC[2J ESC[0f"), TRUE, session)
  ELSE Plain(<< <<"Research module cannot process: ">>, <<parsed.command>> >>, FALSE, session)

executeEmergencyCommand(parsed, session) ==
  IF parsed.command = "status" THEN Plain(Text("EMERGENCY SYSTEM STATUS"), TRUE, session)
  ELSE IF parsed.command = "emergency" THEN Plain(Text("EMERGENCY PROTOCOLS ACTIVATED"), TRUE, session)
  ELSE IF parsed.command = "report" THEN Plain(Text("EMERGENCY REPORT"), TRUE, session)
  ELSE IF parsed.command = "help" THEN Plain(Text("Emergency Commands:"), TRUE, session)
  ELSE IF parsed.command = "clear" THEN Plain(Text("ESC[2J ESC[0f"), TRUE, session)
  ELSE Plain(<< <<"EMERGENCY: Command ">>, <<parsed.command>>,
                <<" not available in emergency mode.">> >>, FALSE, session)

\* a faulty switch that gives every RESEARCHER user the research table
dispatchByRole(parsed, session) ==
  IF users[session.userId].accessLevel = "RESEARCHER" THEN executeResearcherCommand(parsed, session)
  ELSE IF session.terminalType = "FILESYSTEM" THEN executeFileSystemCommand(parsed, session)
  ELSE IF session.terminalType = "MILITARY" THEN executeMilitaryCommand(parsed, session)
  ELSE executeEmergencyCommand(parsed, session)

\* the switch on session.terminalType of executeCommand
dispatch(parsed, session) ==
  IF session.terminalType = "FILESYSTEM" THEN executeFileSystemCommand(parsed, session)
  ELSE IF session.terminalType = "MILITARY" THEN executeMilitaryCommand(parsed, session)
  ELSE IF session.terminalType = "RESEARCHER" THEN executeResearcherCommand(parsed, session)
  ELSE IF session.terminalType = "EMERGENCY" THEN executeEmergencyCommand(parsed, session)
  ELSE Plain(<< <<"Unknown terminal type: ">>, <<session.terminalType>> >>, FALSE, session)

\* a faulty lookup by id alone
getSessionById(sessionId, userId) == IF sessionId \in TermIds THEN sessionId ELSE 0

\* getTerminalSession: findFirst({where: {id, userId, isActive: true}}), 0 when it throws
getTerminalSession(sessionId, userId) ==
  IF sessionId \in TermIds /\ term[sessionId].userId = userId /\ term[sessionId].isActive
  THEN sessionId ELSE 0

\* a faulty first slice: the oldest entries kept
keepOldest(h) == IF Len(h) > HistoryLimit THEN SubSeq(h, 1, HistoryLimit) ELSE h

\* commandHistory.slice(-100)
limitHistory(h) ==
  IF Len(h) > HistoryLimit THEN SubSeq(h, Len(h) - HistoryLimit + 1, Len(h)) ELSE h

\* the object executeCommand returns
ExecResult(command, output, success, sessionId) ==
  [route |-> "executeCommand", command |-> command, output |-> output,
   success |-> success, sessionId |-> sessionId]

\* a faulty executeCommand without its catch: the error leaves the function
uncaught(command, message, sessionId) ==
  [route |-> "executeCommand threw", command |-> command,
   output |-> << <<"Error: ">>, <<message>> >>, success |-> FALSE, sessionId |-> sessionId]

\* the catch of executeCommand: the error returned as a result
caught(command, message, sessionId) ==
  ExecResult(command, << <<"Error: ">>, <<message>> >>, FALSE, sessionId)

\* createTerminalSession: the row and the LOGIN event; an invalid type throws
CreateTerminalSession(u, terminalType) ==
  /\ users[u].isActive
  /\ Len(term) < MaxTerminals
  /\ IF terminalType \notin ValidTerminalTypes
     THEN UNCHANGED <<term, securityLog>>
     ELSE /\ term' = Append(term, [userId |-> u, terminalType |-> terminalType,
                                   commandHistory |-> <<>>, currentDirectory |-> Root,
                                   isActive |-> TRUE, lastActivity |-> now])
          /\ securityLog' = logSecurityEvent(securityLog,
               LogRowMeta(u, "LOGIN", "Terminal session created", Len(term) + 1)).log
  /\ UNCHANGED <<now, ticks, env, logFails, browser, security, client, users, sessions, reqs, nReq,
                 issuedAccess, issuedRefresh, loggedOut, pwChanged>>
  /\ UNCHANGED <<fsVars, execs, nExec>>

\* a faulty event that reports every command as a success
commandEventSuccess(userId, sanitizedCommand, sessionId, terminalType, success) ==
  LogRowMeta(userId, "COMMAND", "Command executed",
             [command |-> sanitizedCommand, sessionId |-> sessionId,
              terminalType |-> terminalType, success |-> TRUE])

\* the COMMAND event of executeCommand; the command text, which the code puts
\* behind "Command executed: " in the description, is kept in meta.command
commandEvent(userId, sanitizedCommand, sessionId, terminalType, success) ==
  LogRowMeta(userId, "COMMAND", "Command executed",
             [command |-> sanitizedCommand, sessionId |-> sessionId,
              terminalType |-> terminalType, success |-> success])

\* a call suspends in the lowest idle slot
FreeExec(s) == execs[s] = Idle /\ \A r \in ExecSlots : r < s => execs[r] # Idle

\* executeCommand up to the session load (line 265); the throw of
\* getTerminalSession is caught and returned as the error result
ExecLoad(s, u, sessionId, command, budget) ==
  /\ users[u].isActive
  /\ nExec < budget
  /\ FreeExec(s)
  /\ nExec' = nExec + 1
  /\ IF getTerminalSession(sessionId, u) = 0
     THEN /\ resp' = caught(command, "Terminal session not found or inactive", sessionId)
          /\ execs' = execs
     ELSE /\ resp' = resp
          /\ execs' = [execs EXCEPT ![s] =
                         [op |-> "loaded", userId |-> u, sessionId |-> sessionId,
                          command |-> command, session |-> term[sessionId]]]
  /\ UNCHANGED <<authVars, fs, term>>

\* executeCommand, lines 268-299: sanitize, parse, run the handler of the
\* session's table; a successful cd writes the session's directory
ExecDispatch(s) ==
  /\ execs[s].op = "loaded"
  /\ LET sanitized == sanitizeInput(execs[s].command)
         result == dispatch(parseCommand(sanitized), execs[s].session)
     IN /\ term' = IF result.setDirectory = EmptyStr THEN term
                   ELSE [term EXCEPT ![execs[s].sessionId].currentDirectory = result.setDirectory]
        /\ execs' = [execs EXCEPT ![s] =
                       [op |-> "ran", userId |-> execs[s].userId, sessionId |-> execs[s].sessionId,
                        command |-> sanitized, raw |-> execs[s].command,
                        session |-> execs[s].session,
                        output |-> result.output, success |-> result.success]]
  /\ UNCHANGED <<authVars, fsVars, nExec>>

\* executeCommand, lines 301-341: the entry pushed on the history that was
\* loaded, the slice, the update, the COMMAND event, the result
ExecPersist(s) ==
  /\ execs[s].op = "ran"
  /\ term' = [term EXCEPT
       ![execs[s].sessionId].commandHistory =
           limitHistory(Append(execs[s].session.commandHistory,
                               [command |-> execs[s].command, timestamp |-> now,
                                result |-> IF execs[s].success THEN "success" ELSE "error"])),
       ![execs[s].sessionId].lastActivity = now]
  /\ LET ev == logSecurityEvent(securityLog,
                 commandEvent(execs[s].userId, execs[s].command, execs[s].sessionId,
                              execs[s].session.terminalType, execs[s].success))
     IN /\ securityLog' = ev.log
        /\ resp' = IF ev.threw THEN caught(execs[s].raw, LogWriteError, execs[s].sessionId)
                   ELSE ExecResult(execs[s].command, execs[s].output, execs[s].success,
                                   execs[s].sessionId)
  /\ execs' = [execs EXCEPT ![s] = Idle]
  /\ UNCHANGED <<now, ticks, env, logFails, browser, security, client, users, sessions, reqs, nReq,
                 issuedAccess, issuedRefresh, loggedOut, pwChanged>>
  /\ UNCHANGED <<fs, nExec>>

\* endTerminalSession: update({where: {id, userId}, data: {isActive: false, lastActivity}});
\* no such row is a throw
EndTerminalSession(u, sessionId) ==
  /\ users[u].isActive
  /\ sessionId \in TermIds
  /\ term[sessionId].userId = u
  /\ term' = [term EXCEPT ![sessionId].isActive = FALSE, ![sessionId].lastActivity = now]
  /\ UNCHANGED <<authVars, fsVars, execs, nExec>>

\* ------------------------------------------------------ security middleware
\* req.security.ip of the requests of the model
Addresses == {"10.0.0.1", "10.0.0.2"}

\* the module state of middleware/security after load: the limiter's Map
\* (address -> timestamps, no key at first), the Set blockedIPs and the pending
\* setTimeout callbacks of blockIP, with the clock (Date.now(), milliseconds).
\* sent, admitted and blocks are the record of what happened, which the code
\* does not keep: the requests sent to the limiter by each address, the
\* times of those it let through, and the latest blockIP call by address
NoSecurity ==
  [time |-> 0, ticks |-> 0,
   requests |-> [a \in {} |-> <<>>],
   blockedIPs |-> {}, timers |-> {},
   sent |-> [a \in Addresses |-> 0],
   admitted |-> [a \in Addresses |-> <<>>],
   blocks |-> [a \in {} |-> [at |-> 0, duration |-> 0]],
   last |-> [ip |-> "", status |-> 0]]

\* a faulty filter that still counts a request made exactly windowMs ago
filterInclusive(timestamps, t) == SelectSeq(timestamps, LAMBDA ts : t - ts <= windowMs)

\* timestamps.filter(timestamp => now - timestamp < windowMs)
filterWindow(timestamps, t) == SelectSeq(timestamps, LAMBDA ts : t - ts < windowMs)

\* the 1% clean-up: every key filtered, a key without timestamps deleted
sweep(requests, t) ==
  LET kept == {ip \in DOMAIN requests : filterWindow(requests[ip], t) # <<>>}
  IN [ip \in kept |-> filterWindow(requests[ip], t)]

\* requests.set(clientIP, validRequests)
mapSet(requests, ip, value) ==
  [k \in DOMAIN requests \cup {ip} |-> IF k = ip THEN value ELSE requests[k]]

securityFrame ==
  /\ UNCHANGED <<now, ticks, env, logFails, browser, client, users, sessions, reqs, nReq,
                 issuedAccess, issuedRefresh, loggedOut, pwChanged>>
  /\ UNCHANGED <<fsVars, termVars>>

\* the middleware createSensitiveRateLimit returns, for one request of the
\* address ip; cleanUp is the outcome of Math.random() < 0.01, budget the
\* number of requests the address sends. The SUSPICIOUS event of a rejected
\* request is written by the module's own logSecurityEvent, which swallows a
\* failing write
SensitiveRateLimit(ip, cleanUp, budget) ==
  /\ security.sent[ip] < budget
  /\ LET t == security.time
         userRequests == IF ip \in DOMAIN security.requests
                         THEN security.requests[ip] ELSE <<>>
         validRequests == filterWindow(userRequests, t)
         stored == mapSet(security.requests, ip, Append(validRequests, t))
     IN IF Len(validRequests) >= maxRequests
        THEN /\ security' = [security EXCEPT !.sent[ip] = @ + 1,
                                             !.last = [ip |-> ip, status |-> 429]]
             /\ securityLog' =
                  IF logFails THEN securityLog
                  ELSE Append(securityLog,
                         LogRowMeta("null", "SUSPICIOUS", "Rate limit exceeded",
                                    [requestCount |-> Len(validRequests),
                                     maxRequests |-> maxRequests]))
        ELSE /\ security' = [security EXCEPT
                               !.sent[ip] = @ + 1,
                               !.requests = IF cleanUp THEN sweep(stored, t) ELSE stored,
                               !.admitted[ip] = Append(@, t),
                               !.last = [ip |-> ip, status |-> 200]]
             /\ securityLog' = securityLog
  /\ securityFrame

\* blockIP(ip, duration): the address added to the Set and a timer started
\* that deletes it; an earlier timer for the address keeps running
BlockIP(ip, duration) ==
  /\ Cardinality(security.timers) < MaxBlocks
  /\ \A tm \in security.timers : tm.at >= security.time
  /\ security' = [security EXCEPT
                    !.blockedIPs = @ \cup {ip},
                    !.timers = @ \cup {[ip |-> ip, at |-> security.time + duration]},
                    !.blocks = [a \in DOMAIN @ \cup {ip} |->
                                  IF a = ip THEN [at |-> security.time, duration |-> duration]
                                  ELSE @[a]]]
  /\ securityLog' = securityLog
  /\ securityFrame

\* the callback of a timer of blockIP that is due: blockedIPs.delete(ip)
BlockTimeout(tm) ==
  /\ tm \in security.timers
  /\ tm.at <= security.time
  /\ security' = [security EXCEPT !.blockedIPs = @ \ {tm.ip}, !.timers = @ \ {tm}]
  /\ securityLog' = securityLog
  /\ securityFrame

\* ipBlockMiddleware for one request of the address ip: 403, or next(). A
\* timer that is overdue has run before the request is handled
IpBlockMiddleware(ip) ==
  /\ \A tm \in security.timers : tm.at >= security.time
  /\ security' = [security EXCEPT
                    !.last = [ip |-> ip,
                              status |-> IF ip \in security.blockedIPs THEN 403 ELSE 200]]
  /\ securityLog' = securityLog
  /\ securityFrame

\* time passes; a setTimeout callback that is due runs before the clock moves on
SecurityTick(d) ==
  /\ security.ticks < MaxSecurityTicks
  /\ \A tm \in security.timers : tm.at > security.time
  /\ security' = [security EXCEPT !.time = @ + d, !.ticks = @ + 1]
  /\ securityLog' = securityLog
  /\ securityFrame

\* ------------------------------------------------------------------ client
\* window.phoenixAPI and window.phoenixTerminal in one browser tab
ClientCalls == 1..MaxClientCalls

\* localStorage.getItem of a key that is not stored
NullToken == [kind |-> "null"]

\* after construction: no tokens in localStorage, no call in flight
\* the PhoenixTerminal after construction. commandHistory is its local history;
\* connected is this.socket && this.socket.connected; emitted are the
\* 'terminal-command' messages on the socket the server has not handled;
\* pending is the HTTP call of the fallback with the number of executeCommand
\* calls the server had started when it was sent; delivered are the arguments
\* of the calls of handleCommandResult; flips counts the socket's changes
NoTerminal ==
  [sessionId |-> 0, isActive |-> FALSE, commandHistory |-> <<>>, connected |-> FALSE,
   emitted |-> <<>>, pending |-> Idle, delivered |-> <<>>, flips |-> 0]

\* after construction: no tokens in localStorage, no call in flight
NoClient ==
  [accessToken |-> NullToken, refreshToken |-> NullToken,
   calls |-> [c \in ClientCalls |-> Idle],
   terminal |-> NoTerminal]

clientFrame ==
  /\ UNCHANGED <<now, ticks, env, logFails, browser, security, users, sessions, securityLog,
                 reqs, nReq, issuedAccess, issuedRefresh, loggedOut, pwChanged>>
  /\ UNCHANGED <<fsVars, termVars>>

\* saveTokensToStorage(accessToken, refreshToken)
saveTokensToStorage(c, accessToken, refreshToken) ==
  [c EXCEPT !.accessToken = accessToken, !.refreshToken = refreshToken]

\* clearTokensFromStorage()
clearTokensFromStorage(c) == [c EXCEPT !.accessToken = NullToken, !.refreshToken = NullToken]

\* PhoenixAPI.login after the answer of POST /auth/login: the pair of one login
\* saved (the server's side of the login is LoginCheck and LoginCommit)
ClientLogin(accessToken, refreshToken) ==
  /\ client.accessToken = NullToken
  /\ accessToken.userId = refreshToken.userId
  /\ accessToken.iat = refreshToken.iat
  /\ client' = saveTokensToStorage(client, accessToken, refreshToken)
  /\ clientFrame

\* PhoenixAPI.request, lines 48-64: the fetch of an authenticated endpoint with
\* the stored access token, answered by authenticateToken; 'Access token
\* expired' is the answer that carries code TOKEN_EXPIRED
ClientRequest(c) ==
  /\ client.calls[c] = Idle
  /\ client.accessToken # NullToken
  /\ AuthenticateRequest(client.accessToken)
  /\ client' = [client EXCEPT !.calls[c] =
                  [op |-> "answered", status |-> resp'.status,
                   code |-> IF resp'.message = "Access token expired"
                            THEN "TOKEN_EXPIRED" ELSE "undefined"]]

\* PhoenixAPI.request, lines 65-84, for an answer other than 401 TOKEN_EXPIRED:
\* the data returned or the error thrown
ClientReturn(c) ==
  /\ client.calls[c].op = "answered"
  /\ ~(client.calls[c].status = 401 /\ client.calls[c].code = "TOKEN_EXPIRED")
  /\ client' = [client EXCEPT !.calls[c] = Idle]
  /\ clientFrame

\* refreshAccessToken, lines 92-96, of a call answered 401 TOKEN_EXPIRED when no
\* refresh token is stored: the tokens cleared, false returned, the call throws
ClientRefreshNoToken(c) ==
  /\ client.calls[c].op = "answered"
  /\ client.calls[c].status = 401 /\ client.calls[c].code = "TOKEN_EXPIRED"
  /\ client.refreshToken = NullToken
  /\ client' = [clearTokensFromStorage(client) EXCEPT !.calls[c] = Idle]
  /\ clientFrame

\* refreshAccessToken, lines 98-105: the fetch of POST /auth/refresh with the
\* stored refresh token in the body, and the server's answer to it
ClientRefreshFetch(c) ==
  /\ client.calls[c].op = "answered"
  /\ client.calls[c].status = 401 /\ client.calls[c].code = "TOKEN_EXPIRED"
  /\ client.refreshToken # NullToken
  /\ PostRefresh(client.refreshToken, NoToken)
  /\ client' = [client EXCEPT !.calls[c] =
                  [op |-> "refreshing", sent |-> client.refreshToken, response |-> resp']]

\* refreshAccessToken, lines 107-120, then request, lines 67-79: an answer with
\* status 2xx and success saves the pair it carries and the call is retried;
\* every other answer clears the stored tokens and the call throws
ClientRefreshDone(c) ==
  /\ client.calls[c].op = "refreshing"
  /\ LET response == client.calls[c].response
     IN client' = IF response.status = 200
                  THEN [saveTokensToStorage(client, response.accessToken, response.refreshToken)
                          EXCEPT !.calls[c] = Idle]
                  ELSE [clearTokensFromStorage(client) EXCEPT !.calls[c] = Idle]
  /\ clientFrame

\* PhoenixTerminal.initialize after the answer of createTerminalSession: the
\* session adopted, the socket connected or not
TerminalInitialize(sessionId, connected) ==
  /\ ~client.terminal.isActive
  /\ client.terminal.sessionId = 0
  /\ sessionId \in TermIds
  /\ term[sessionId].isActive
  /\ client' = [client EXCEPT !.terminal.sessionId = sessionId,
                              !.terminal.isActive = TRUE,
                              !.terminal.connected = connected]
  /\ clientFrame

\* the socket's 'connect' / 'disconnect': socket.connected changes
SocketFlip ==
  /\ client.terminal.isActive
  /\ client.terminal.flips < MaxSocketFlips
  /\ client' = [client EXCEPT !.terminal.connected = ~@, !.terminal.flips = @ + 1]
  /\ clientFrame

\* PhoenixTerminal.executeCommand: the local history, then the socket's emit
\* when the socket is connected, else the HTTP call (one at a time in the model)
TerminalExecuteCommand(commandText) ==
  /\ client.terminal.isActive
  /\ client.terminal.sessionId # 0
  /\ Len(client.terminal.commandHistory) < MaxSubmits
  /\ client.terminal.pending = Idle
  /\ client' =
       IF client.terminal.connected
       THEN [client EXCEPT !.terminal.commandHistory = Append(@, commandText),
                           !.terminal.emitted =
                              Append(@, [command |-> commandText,
                                         sessionId |-> client.terminal.sessionId])]
       ELSE [client EXCEPT !.terminal.commandHistory = Append(@, commandText),
                           !.terminal.pending =
                              [op |-> "http", command |-> commandText,
                               sessionId |-> client.terminal.sessionId, ticket |-> nExec]]
  /\ clientFrame

\* socket.on('terminal-command') of the server: the message logged and
\* broadcast as 'command-executed' to the room terminal-type-admin, which no
\* socket joins; nothing is executed and nothing is sent back
SocketTerminalCommand ==
  /\ client.terminal.emitted # <<>>
  /\ client' = [client EXCEPT !.terminal.emitted = Tail(@)]
  /\ clientFrame

\* POST /sessions/:id/commands for the pending HTTP call: executeCommand started
TerminalHttpLoad(u) ==
  /\ client.terminal.pending # Idle
  /\ client.terminal.pending.ticket = nExec
  /\ ExecLoad(1, u, client.terminal.pending.sessionId, client.terminal.pending.command,
              nExec + 1)

\* the answer of the pending HTTP call, {success: true, message, data: result},
\* handed to handleCommandResult
TerminalHttpResult ==
  /\ client.terminal.pending # Idle
  /\ client.terminal.pending.ticket < nExec
  /\ execs[1] = Idle
  /\ client' = [client EXCEPT !.terminal.pending = Idle,
                              !.terminal.delivered =
                                 Append(@, [success |-> TRUE,
                                            message |-> "Command executed successfully",
                                            data |-> resp])]
  /\ clientFrame

\* ------------------------------------------------------------ registration
GhostEmail == "ghost@phoenix-industries.com"
\* bodies of POST /api/auth/register that pass validators.register: a username
\* and an email that are taken or free (the access level is the default)
RegisterBodies == [username : {"researcher", "ghost"},
                   email : {SeedEmail("researcher"), GhostEmail}]
RegisterPassword == "Str0ng!pass"

\* registerUser, lines 210-242: the error thrown for a user found by
\* findFirst({OR: [{username}, {email}]}), or "ok"
registerError(body) ==
  IF \E u \in DOMAIN users : users[u].username = body.username
  THEN "Username already exists"
  ELSE IF \E u \in DOMAIN users : users[u].email = body.email
  THEN "Email already exists"
  ELSE "ok"

\* registerUser up to the await of hashPassword
RegisterCheck(s, body) ==
  /\ FreeSlot(s)
  /\ nReq < MaxRequests
  /\ nReq' = nReq + 1
  /\ IF registerError(body) # "ok"
     THEN /\ securityLog' = logSecurityEvent(securityLog,
                               LogRow("null", "SUSPICIOUS",
                                      IF registerError(body) = "Username already exists"
                                      THEN "Registration attempt with existing username"
                                      ELSE "Registration attempt with existing email")).log
          /\ resp' = thrown("POST /auth/register", registerError(body))
          /\ UNCHANGED reqs
     ELSE /\ reqs' = [reqs EXCEPT ![s] = [op |-> "register", body |-> body]]
          /\ UNCHANGED <<securityLog, resp>>
  /\ UNCHANGED <<now, ticks, env, logFails, browser, security, client, users, sessions, issuedAccess, issuedRefresh,
                 loggedOut, pwChanged>>
  /\ UNCHANGED <<fs, termVars>>

\* registerUser from prisma.user.create on: the unique indexes of users reject a
\* username or email taken in the meantime (P2002); otherwise the user is
\* created, the event logged and a token pair returned, without a session row
RegisterCommit(s) ==
  /\ reqs[s].op = "register"
  /\ LET body == reqs[s].body
         user == [id |-> body.username, username |-> body.username,
                  passwordHash |-> hashPassword(RegisterPassword), email |-> body.email,
                  accessLevel |-> "RESEARCHER", isActive |-> TRUE, lastLogin |-> -1]
         tokens == generateTokenPair(user, now)
     IN IF registerError(body) # "ok"
        THEN /\ resp' = HttpResp("POST /auth/register",
                           errorHandler("PrismaClientKnownRequestError", "P2002", "").status,
                           errorHandler("PrismaClientKnownRequestError", "P2002", "").error)
             /\ UNCHANGED <<users, securityLog, issuedAccess, issuedRefresh, loggedOut, pwChanged>>
        ELSE /\ users' = users @@ (user.id :> user)
             /\ securityLog' = logSecurityEvent(securityLog,
                                  LogRow(user.id, "LOGIN", "User registered successfully")).log
             /\ issuedAccess' = issuedAccess \cup {tokens.accessToken}
             /\ issuedRefresh' = issuedRefresh \cup {tokens.refreshToken}
             /\ loggedOut' = loggedOut @@ (user.id :> FALSE)
             /\ pwChanged' = pwChanged @@ (user.id :> FALSE)
             /\ resp' = HttpResp("POST /auth/register", 201, "User registered successfully")
  /\ reqs' = [reqs EXCEPT ![s] = Idle]
  /\ UNCHANGED <<now, ticks, env, logFails, browser, security, client, sessions, nReq>>
  /\ UNCHANGED <<fs, termVars>>

\* ------------------------------------------------------- database failures
\* the message of the error a rejected prisma call carries
DbError == "Can't reach database server"

\* the security_logs table stops taking writes; it does so before the first
\* request (a later failure only leaves a longer log behind)
BreakLog ==
  /\ ~logFails
  /\ nReq = 0 /\ nExec = 0
  /\ logFails' = TRUE
  /\ UNCHANGED <<now, ticks, env, browser, security, client, users, sessions, securityLog, reqs, nReq,
                 issuedAccess, issuedRefresh, loggedOut, pwChanged>>
  /\ UNCHANGED <<fsVars, termVars>>

\* executeCommand when the findFirst of getTerminalSession rejects: the error is
\* rethrown by getTerminalSession and ends in the catch of executeCommand
ExecLoadFails(s, u, sessionId, command, budget) ==
  /\ users[u].isActive
  /\ nExec < budget
  /\ FreeExec(s)
  /\ nExec' = nExec + 1
  /\ resp' = caught(command, DbError, sessionId)
  /\ UNCHANGED <<authVars, fs, term, execs>>

\* the handlers of the FILESYSTEM terminal that query the database
queriesDatabase(parsed, session) ==
  /\ session.terminalType = "FILESYSTEM"
  /\ \/ parsed.command \in {"ls", "dir"}
     \/ parsed.command \in {"cd", "cat", "type"} /\ parsed.args # <<>>

\* the catch of the handler whose query (for cd, also whose update) rejects
handlerCatch(parsed, session) ==
  IF parsed.command \in {"ls", "dir"}
  THEN Plain(<< <<"Error listing directory: ">>, <<DbError>> >>, FALSE, session)
  ELSE IF parsed.command = "cd"
  THEN Plain(<< <<"Error changing directory: ">>, <<DbError>> >>, FALSE, session)
  ELSE Plain(<< <<"Error reading file: ">>, <<DbError>> >>, FALSE, session)

\* executeCommand, lines 268-299, when the handler's prisma call rejects: the
\* handler returns its own error result and executeCommand goes on
ExecDispatchFails(s) ==
  /\ execs[s].op = "loaded"
  /\ LET sanitized == sanitizeInput(execs[s].command)
         parsed == parseCommand(sanitized)
         result == handlerCatch(parsed, execs[s].session)
     IN /\ queriesDatabase(parsed, execs[s].session)
        /\ execs' = [execs EXCEPT ![s] =
                       [op |-> "ran", userId |-> execs[s].userId, sessionId |-> execs[s].sessionId,
                        command |-> sanitized, raw |-> execs[s].command,
                        session |-> execs[s].session,
                        output |-> result.output, success |-> result.success]]
  /\ UNCHANGED <<authVars, fsVars, term, nExec>>

\* executeCommand, lines 301-351, when terminalSession.update rejects: nothing
\* is written and the catch returns the error with the command as it was sent
ExecPersistFails(s) ==
  /\ execs[s].op = "ran"
  /\ resp' = caught(execs[s].raw, DbError, execs[s].sessionId)
  /\ execs' = [execs EXCEPT ![s] = Idle]
  /\ UNCHANGED <<authVars, fs, term, nExec>>

\* --------------------------------------------------- the auth specifications
\* ------------------------------------------------------------- the frontend
\* checkAccess of the static pages, in two versions: assets/js/access-control.js
\* keeps the login state in cookies, the older module in localStorage. Times are
\* minutes. The page that stores the login state is not part of the sources:
\* StoreLogin enumerates the states it can leave behind.
SessionDuration == 30
\* setCookie('loginTime', ..., 1): the cookie expires one day after it is set
LoginTimeCookieLife == 1440
\* lifetimes of the identity cookies, when they are given an expires attribute
IdentityLives == {720, 2880}
\* steps of the browser's clock
BrowserSteps == {SessionDuration, SessionDuration + 1, LoginTimeCookieLife}

NoBrowser ==
  [storage |-> "none", identity |-> FALSE, identitySession |-> FALSE, identityExpires |-> 0,
   hasLoginTime |-> FALSE, loginTime |-> 0, loginTimeExpires |-> 0,
   time |-> 0, ticks |-> 0, checked |-> FALSE, lastCheck |-> 0, returned |-> "none"]

\* getCookie / localStorage.getItem of userIdentifier and userType: a cookie is
\* in document.cookie until its expires date, an item until it is removed
identityStored(b) ==
  /\ b.identity
  /\ (b.storage = "localStorage" \/ b.identitySession \/ b.time < b.identityExpires)

\* getCookie('loginTime') / localStorage.getItem('loginTime') is not null
loginTimeStored(b) ==
  /\ b.hasLoginTime
  /\ (b.storage = "localStorage" \/ b.time < b.loginTimeExpires)

\* logoutUser of access-control.js (every cookie is expired) and
\* localStorage.clear() of the older module
clearStored(b) == [b EXCEPT !.identity = FALSE, !.hasLoginTime = FALSE]

\* a faulty check that never looks at the login time
checkAccessNoTimeout(b) ==
  IF ~identityStored(b) THEN [b EXCEPT !.returned = "false"]
  ELSE [b EXCEPT !.hasLoginTime = TRUE, !.loginTime = b.time,
                 !.loginTimeExpires = b.time + LoginTimeCookieLife,
                 !.returned = "true", !.checked = TRUE, !.lastCheck = b.time]

\* checkAccess: the browser state after the call; returned is its return value,
\* checked/lastCheck remember the last call that returned true
checkAccess(b) ==
  IF ~identityStored(b) THEN [b EXCEPT !.returned = "false"]
  ELSE IF loginTimeStored(b) /\ b.time - b.loginTime > SessionDuration
  THEN [clearStored(b) EXCEPT !.returned = "false"]
  ELSE [b EXCEPT !.hasLoginTime = TRUE, !.loginTime = b.time,
                 !.loginTimeExpires = b.time + LoginTimeCookieLife,
                 !.returned = "true", !.checked = TRUE, !.lastCheck = b.time]

browserFrame ==
  /\ UNCHANGED <<now, ticks, env, logFails, security, client, users, sessions, securityLog, reqs,
                 nReq, issuedAccess, issuedRefresh, loggedOut, pwChanged>>
  /\ UNCHANGED <<fsVars, termVars>>

\* the login page stores a login state: the identity keys, as session cookies,
\* as cookies with a lifetime or as localStorage items, with or without loginTime
StoreLogin(storage, session, life, withTime) ==
  /\ ~identityStored(browser)
  /\ browser.storage \in {"none", storage}
  /\ browser' = [browser EXCEPT
       !.storage = storage, !.identity = TRUE,
       !.identitySession = (storage = "cookies" /\ session),
       !.identityExpires = browser.time + life,
       !.hasLoginTime = withTime, !.loginTime = browser.time,
       !.loginTimeExpires = browser.time + LoginTimeCookieLife,
       !.checked = FALSE, !.returned = "none"]
  /\ browserFrame

\* a page load calls checkAccess
CheckAccess ==
  /\ browser.storage # "none"
  /\ browser' = checkAccess(browser)
  /\ browserFrame

\* time passes in the browser
BrowserTick(d) ==
  /\ browser.ticks < MaxBrowserTicks
  /\ browser' = [browser EXCEPT !.time = browser.time + d, !.ticks = browser.ticks + 1]
  /\ browserFrame

InitRest ==
  /\ browser = NoBrowser
  /\ client = NoClient
  /\ security = NoSecurity
  /\ fs = SeedFs
  /\ resp = NoResp
  /\ term = <<>>
  /\ execs = [s \in CallSlots |-> Idle]
  /\ nExec = 0

\* the state after the seed script has run
Init == InitAuth /\ InitRest

\* login, refresh, logout, password change
NextAuth ==
  \/ \E d \in TimeSteps : Advance(d)
  \/ \E s \in Slots, u \in Usernames, p \in Passwords : LoginCheck(s, u, p)
  \/ \E s \in Slots : LoginCommit(s)
  \/ \E t \in RefreshInputs : (RefreshTokens(t) /\ UNCHANGED client)
  \/ \E t \in AccessInputs : Logout(t)
  \/ \E t \in AccessInputs, c \in Passwords, n \in NewPasswords : ChangePassword(t, c, n)

SpecAuth == Init /\ [][NextAuth]_vars

\* login, refresh and user administration
NextAdmin ==
  \/ \E s \in Slots, u \in Usernames, p \in Passwords : LoginCheck(s, u, p)
  \/ \E s \in Slots : LoginCommit(s)
  \/ \E t \in RefreshInputs : (RefreshTokens(t) /\ UNCHANGED client)
  \/ \E s \in Slots, t \in AccessInputs, id \in UserIdParams : DeleteUserStart(s, t, id)
  \/ \E s \in Slots : DeleteUserSessions(s)
  \/ \E t \in AccessInputs, id \in UserIdParams : ReactivateUser(t, id)
  \/ \E t \in AccessInputs, id \in UserIdParams, b \in PutBodies : PutUser(t, id, b)

SpecAdmin == Init /\ [][NextAdmin]_vars

\* ---------------------------------------------- the filesystem specification
NextFs ==
  \/ \E u \in UserIds, p \in FsPaths : FsList(u, p)
  \/ \E u \in UserIds, p \in FsParams : FsRead(u, p)
  \/ \E s \in Slots, u \in UserIds, b \in CreateBodies : FsCreateFind(s, u, b)
  \/ \E s \in Slots : FsCreateInsert(s)
  \/ \E u \in UserIds, id \in FsIdParams, b \in UpdateBodies : FsUpdate(u, id, b)
  \/ \E u \in UserIds, id \in FsIdParams : FsDelete(u, id)

SpecFs == Init /\ [][NextFs]_vars

\* ------------------------------------------------ the terminal specification
\* who opens which terminal
TermOpeners == {<<"researcher", "FILESYSTEM">>, <<"admin", "MILITARY">>}

\* session ids a request may name (0 names no session)
TermIdParams == 0..MaxTerminals

TermCommands ==
  { << <<"ls">> >>,
    << <<"cd">>, <<"research">> >>,
    << <<"cat">>, <<"system", "system_status.log">> >>,
    << <<"CAT">>, <<"ghost.txt">> >>,
    << <<"<pwd>">> >> }

NextTerm ==
  \/ \E o \in TermOpeners : CreateTerminalSession(o[1], o[2])
  \/ \E s \in ExecSlots, u \in UserIds, id \in TermIdParams, c \in TermCommands :
       ExecLoad(s, u, id, c, MaxExecs)
  \/ \E s \in ExecSlots : ExecDispatch(s)
  \/ \E s \in ExecSlots : ExecPersist(s)
  \/ \E u \in UserIds, id \in TermIdParams : EndTerminalSession(u, id)

SpecTerm == Init /\ [][NextTerm]_vars

\* ------------------------------------------------- the history specification
\* the k-th command line of a long run in one session: "pwd k" or "bogus k"
HistoryCommand(k) == << <<IF k % 2 = 0 THEN "pwd" ELSE "bogus">>, <<ToString(k)>> >>

\* one FILESYSTEM session, its commands executed one after the other
NextHistory ==
  \/ (term = <<>> /\ CreateTerminalSession("researcher", "FILESYSTEM"))
  \/ (term # <<>> /\ ExecLoad(1, "researcher", 1, HistoryCommand(nExec + 1), MaxHistory))
  \/ ExecDispatch(1)
  \/ ExecPersist(1)

SpecHistory == Init /\ [][NextHistory]_vars

\* ---------------------------------------------- the navigation specification
\* command lines of a walk through the seeded tree
NavCommands ==
  { << <<"ls">> >>,
    << <<"dir">> >>,
    << <<"cd">>, <<"research">> >>,
    << <<"cd">>, <<"community">> >>,
    << <<"cd">>, <<"", "community", "profiles">> >>,
    << <<"cd">>, <<"..">> >> }

\* one FILESYSTEM session of the researcher, its commands executed one after the other
NextNav ==
  \/ (term = <<>> /\ CreateTerminalSession("researcher", "FILESYSTEM"))
  \/ \E c \in NavCommands : (term # <<>> /\ ExecLoad(1, "researcher", 1, c, MaxNavExecs))
  \/ ExecDispatch(1)
  \/ ExecPersist(1)

SpecNav == Init /\ [][NextNav]_vars

\* ------------------------------------ the specification with a failing database
\* command lines of the calls made while the database fails: one whose handler
\* writes, one whose handler reads, one that needs no query
FaultCommands ==
  { << <<"cd">>, <<"research">> >>,
    << <<"cat">>, <<"system", "system_status.log">> >>,
    << <<"<pwd>">> >> }

NextFaults ==
  \/ CreateTerminalSession("researcher", "FILESYSTEM")
  \/ \E s \in ExecSlots, u \in UserIds, id \in TermIdParams, c \in FaultCommands :
       ExecLoad(s, u, id, c, MaxExecs)
  \/ \E s \in ExecSlots, u \in UserIds, id \in TermIdParams, c \in FaultCommands :
       ExecLoadFails(s, u, id, c, MaxExecs)
  \/ \E s \in ExecSlots : ExecDispatch(s)
  \/ \E s \in ExecSlots : ExecDispatchFails(s)
  \/ \E s \in ExecSlots : ExecPersist(s)
  \/ \E s \in ExecSlots : ExecPersistFails(s)
  \/ BreakLog

SpecFaults == Init /\ [][NextFaults]_vars

\* --------------------------------- the specification with a failing security log
\* the command line of the calls made while the log fails
LogCommands == { << <<"pwd">> >> }
\* passwords of the logins and password changes made while the log fails
LogPasswords == {"admin123", "researcher123"}

\* login, refresh, logout, password change, deactivation and executeCommand,
\* before and after the security log stops taking writes; logins use request
\* slot 1 and the deactivation of researcher uses slot 2
NextLog ==
  \/ BreakLog
  \/ \E u \in UserIds, p \in LogPasswords : LoginCheck(1, u, p)
  \/ LoginCommit(1)
  \/ \E t \in RefreshInputs : (RefreshTokens(t) /\ UNCHANGED client)
  \/ \E t \in AccessInputs : Logout(t)
  \/ \E t \in AccessInputs, c \in LogPasswords, n \in NewPasswords : ChangePassword(t, c, n)
  \/ \E t \in AccessInputs : DeleteUserStart(2, t, "researcher")
  \/ DeleteUserSessions(2)
  \/ (term = <<>> /\ CreateTerminalSession("researcher", "FILESYSTEM"))
  \/ \E c \in LogCommands : ExecLoad(1, "researcher", 1, c, MaxExecs)
  \/ ExecDispatch(1)
  \/ ExecPersist(1)

SpecLog == Init /\ [][NextLog]_vars

\* ------------------------------------ the specification of the auth responses
NextHttp ==
  \/ \E s \in Slots, b \in RegisterBodies : RegisterCheck(s, b)
  \/ \E s \in Slots : RegisterCommit(s)
  \/ \E s \in Slots, u \in Usernames, p \in Passwords : LoginCheck(s, u, p)
  \/ \E s \in Slots : LoginCommit(s)
  \/ \E t \in RefreshInputs : (RefreshTokens(t) /\ UNCHANGED client)
  \/ \E s \in Slots, t \in AccessInputs, id \in UserIdParams : DeleteUserStart(s, t, id)
  \/ \E s \in Slots : DeleteUserSessions(s)

SpecHttp == Init /\ [][NextHttp]_vars

\* ------------------------------------------ the specification of the refresh
\* the parts of a refresh request: a token issued earlier, one that is no JWT,
\* or none
RefreshParts == issuedRefresh \cup {GarbageToken, NoToken}

\* logins of the seeded users, logouts and refresh requests, as the clock runs
NextRefresh ==
  \/ \E u \in UserIds : LoginCheck(1, u, SeedPassword(u))
  \/ LoginCommit(1)
  \/ \E t \in AccessInputs : Logout(t)
  \/ \E b \in RefreshParts, c \in RefreshParts : (PostRefresh(b, c) /\ UNCHANGED client)
  \/ \E d \in {1, RefreshTtl} : Advance(d)

SpecRefresh == Init /\ [][NextRefresh]_vars

\* ------------------------------------------ the specification of the frontend
NextBrowser ==
  \/ \E storage \in {"cookies", "localStorage"}, session \in BOOLEAN,
        life \in IdentityLives, withTime \in BOOLEAN :
       StoreLogin(storage, session, life, withTime)
  \/ CheckAccess
  \/ \E d \in BrowserSteps : BrowserTick(d)

SpecBrowser == Init /\ [][NextBrowser]_vars

\* ------------------------------------- the specification of the command tables
\* command lines with a verb of one table, of two, of all and of none, and a cd
TableCommands ==
  { << <<"ls">> >>, << <<"status">> >>, << <<"analyze">> >>, << <<"emergency">> >>,
    << <<"help">> >>, << <<"bogus">> >>, << <<"cd">>, <<"research">> >> }

\* one session of either user and of any terminal type, its commands executed
\* one after the other
NextTables ==
  \/ \E u \in UserIds, t \in ValidTerminalTypes : (term = <<>> /\ CreateTerminalSession(u, t))
  \/ \E c \in TableCommands : (term # <<>> /\ ExecLoad(1, term[1].userId, 1, c, MaxExecs))
  \/ ExecDispatch(1)
  \/ ExecPersist(1)

SpecTables == Init /\ [][NextTables]_vars

\* ------------------------------- the specification of concurrent command calls
RaceCommands == { << <<"pwd">> >>, << <<"cd">>, <<"research">> >> }
\* executeCommand calls of the specification of concurrent calls
RaceExecs == MaxExecs + 1

\* one FILESYSTEM session of the researcher: calls of executeCommand on it that
\* overlap each other and the call that ends it
NextRace ==
  \/ (term = <<>> /\ CreateTerminalSession("researcher", "FILESYSTEM"))
  \/ \E s \in CallSlots, c \in RaceCommands :
       (term # <<>> /\ ExecLoad(s, "researcher", 1, c, RaceExecs))
  \/ \E s \in CallSlots : ExecDispatch(s)
  \/ \E s \in CallSlots : ExecPersist(s)
  \/ EndTerminalSession("researcher", 1)

SpecRace == Init /\ [][NextRace]_vars

\* ------------------------------------------------ the specification of cd
\* cd without an argument, to a directory, to a file, to a path without a node,
\* up, and to an absolute path
CdCommands ==
  { << <<"cd">> >>, << <<"cd">>, <<"military">> >>, << <<"cd">>, <<"readme.txt">> >>,
    << <<"cd">>, <<"ghost">> >>, << <<"cd">>, <<"..">> >>,
    << <<"cd">>, <<"", "community", "profiles">> >> }

\* one FILESYSTEM session of the researcher, its commands executed one after the
\* other, while the admin soft-deletes the directory /military
NextCd ==
  \/ (term = <<>> /\ CreateTerminalSession("researcher", "FILESYSTEM"))
  \/ \E c \in CdCommands : (term # <<>> /\ ExecLoad(1, "researcher", 1, c, MaxNavExecs))
  \/ ExecDispatch(1)
  \/ ExecPersist(1)
  \/ FsDelete("admin", 3)

SpecCd == Init /\ [][NextCd]_vars

\* ------------------------------------ the specification of the password change
\* logins of the seeded users, logouts and password changes with every access
\* token handed out and every password of the model, as the clock runs
NextPassword ==
  \/ \E u \in UserIds : LoginCheck(1, u, SeedPassword(u))
  \/ LoginCommit(1)
  \/ \E t \in AccessInputs : Logout(t)
  \/ \E t \in AccessInputs, c \in Passwords, n \in NewPasswords : ChangePassword(t, c, n)
  \/ \E d \in {1, AccessTtl} : Advance(d)

SpecPassword == Init /\ [][NextPassword]_vars

\* ------------------------------- the specification of the deleted directory
\* into /military, to /military by its absolute path, the file of /military by
\* its name and by its path from the root, and back up
OrphanCommands ==
  { << <<"cd">>, <<"military">> >>, << <<"cd">>, <<"", "military">> >>,
    << <<"cat">>, <<"deployment_orders.txt">> >>,
    << <<"cat">>, <<"military", "deployment_orders.txt">> >>, << <<"cd">>, <<"..">> >> }

\* one FILESYSTEM session of the researcher, its commands executed one after the
\* other, while the admin soft-deletes the directory /military or the file in it
NextOrphan ==
  \/ (term = <<>> /\ CreateTerminalSession("researcher", "FILESYSTEM"))
  \/ \E c \in OrphanCommands : (term # <<>> /\ ExecLoad(1, "researcher", 1, c, MaxNavExecs))
  \/ ExecDispatch(1)
  \/ ExecPersist(1)
  \/ \E id \in {3, 8} : FsDelete("admin", id)

SpecOrphan == Init /\ [][NextOrphan]_vars

\* --------------------------------------- the specification of the rate limiter
\* the steps of the clock: a millisecond, and the rest of the window
LimiterSteps == {1, windowMs - 1}

\* one address sends two requests more than the limiter lets through at once,
\* another address one request, with and without the clean-up, as time passes
NextLimiter ==
  \/ \E c \in BOOLEAN : SensitiveRateLimit("10.0.0.1", c, maxRequests + 2)
  \/ \E c \in BOOLEAN : SensitiveRateLimit("10.0.0.2", c, 1)
  \/ \E d \in LimiterSteps : SecurityTick(d)

SpecLimiter == Init /\ [][NextLimiter]_vars

\* ------------------------------- the specification of the closed sessions
\* every operation that closes an auth session or a terminal session (logout,
\* password change, session end, deactivation of the researcher) next to the
\* operations that follow it: refresh, executeCommand on either terminal
\* session of the researcher, and the researcher's reactivation; the terminal
\* sessions are opened before the first request
NextClosed ==
  \/ \E u \in UserIds : LoginCheck(1, u, SeedPassword(u))
  \/ LoginCommit(1)
  \/ \E t \in issuedAccess : Logout(t)
  \/ \E t \in issuedAccess, n \in NewPasswords : ChangePassword(t, SeedPassword(t.userId), n)
  \/ \E t \in issuedRefresh : (RefreshTokens(t) /\ UNCHANGED client)
  \/ \E t \in issuedAccess : DeleteUserStart(1, t, "researcher")
  \/ DeleteUserSessions(1)
  \/ \E t \in issuedAccess : ReactivateUser(t, "researcher")
  \/ (nReq = 0 /\ nExec = 0 /\ Len(term) < 2 /\ CreateTerminalSession("researcher", "FILESYSTEM"))
  \/ \E i \in {1, 2} : ExecLoad(1, "researcher", i, << <<"pwd">> >>, MaxExecs)
  \/ ExecDispatch(1)
  \/ ExecPersist(1)
  \/ EndTerminalSession("researcher", 2)

SpecClosed == Init /\ [][NextClosed]_vars

\* ------------------------------------ the specification of the failing login
\* logins of the seeded users with their passwords, each completing or failing
\* at the creation of the session row, and logouts, as the clock runs
NextLogin ==
  \/ \E u \in UserIds : LoginCheck(1, u, SeedPassword(u))
  \/ LoginCommit(1)
  \/ LoginCommitFails(1)
  \/ \E t \in issuedAccess : Logout(t)
  \/ \E d \in {1, AccessTtl} : Advance(d)

SpecLogin == Init /\ [][NextLogin]_vars

\* ------------------------------- the specification of the authentication guard
\* logins of the seeded users, the researcher deactivated and reactivated by
\* an admin, and requests with every access token handed out in front of the
\* middleware, as the tokens age
NextGuard ==
  \/ \E u \in UserIds : LoginCheck(1, u, SeedPassword(u))
  \/ LoginCommit(1)
  \/ \E t \in issuedAccess : DeleteUserStart(1, t, "researcher")
  \/ DeleteUserSessions(1)
  \/ \E t \in issuedAccess : ReactivateUser(t, "researcher")
  \/ \E t \in AccessInputs : (AuthenticateRequest(t) /\ UNCHANGED client)
  \/ \E d \in {1, AccessTtl} : Advance(d)

SpecGuard == Init /\ [][NextGuard]_vars

\* ------------------------------------ the specification of the API client
\* the researcher logs in, the client stores the pair, and its calls to
\* authenticated endpoints run side by side while the access token expires
NextClient ==
  \/ LoginCheck(1, "researcher", SeedPassword("researcher"))
  \/ LoginCommit(1)
  \/ \E a \in issuedAccess, r \in issuedRefresh : ClientLogin(a, r)
  \/ \E c \in ClientCalls : ClientRequest(c)
  \/ \E c \in ClientCalls : ClientReturn(c)
  \/ \E c \in ClientCalls : ClientRefreshNoToken(c)
  \/ \E c \in ClientCalls : ClientRefreshFetch(c)
  \/ \E c \in ClientCalls : ClientRefreshDone(c)
  \/ \E d \in {1, AccessTtl} : Advance(d)

SpecClient == Init /\ [][NextClient]_vars

\* --------------------------------- the specification of the terminal client
\* one RESEARCHER session of the researcher, adopted by the terminal with the
\* socket connected or not; commands submitted while the socket comes and goes
NextSocket ==
  \/ (term = <<>> /\ CreateTerminalSession("researcher", "RESEARCHER"))
  \/ \E connected \in BOOLEAN : TerminalInitialize(1, connected)
  \/ SocketFlip
  \/ TerminalExecuteCommand(<< <<"help">> >>)
  \/ SocketTerminalCommand
  \/ TerminalHttpLoad("researcher")
  \/ ExecDispatch(1)
  \/ ExecPersist(1)
  \/ TerminalHttpResult

\* the server handles what it receives and the browser runs its callbacks
SpecSocket ==
  /\ Init /\ [][NextSocket]_vars
  /\ WF_vars(SocketTerminalCommand)
  /\ WF_vars(TerminalHttpLoad("researcher"))
  /\ WF_vars(ExecDispatch(1))
  /\ WF_vars(ExecPersist(1))
  /\ WF_vars(TerminalHttpResult)

\* ------------------------------------------ the specification of the IP block
\* the steps of the clock: a millisecond, and the rest of the default duration
BlockSteps == {1, BlockDuration - 1}

\* two addresses blocked for the default duration or for a millisecond, blocked
\* again while a block runs, and their requests as time passes
NextBlock ==
  \/ \E ip \in Addresses, d \in {1, BlockDuration} : BlockIP(ip, d)
  \/ \E tm \in security.timers : BlockTimeout(tm)
  \/ \E ip \in Addresses : IpBlockMiddleware(ip)
  \/ \E d \in BlockSteps : SecurityTick(d)

SpecBlock == Init /\ [][NextBlock]_vars

\* ------------------------------------------------------------------ claims
userRows(u) == {i \in SessionIds : sessions[i].userId = u}

\* C1: of the calls of refresh with one refresh token the first succeeds and the
\* later ones fail; the first part: refresh accepts a refresh token that has not
\* expired and that an active session of an active user holds.
C1_RefreshSucceedsOnce ==
  \A r \in issuedRefresh :
    ( /\ verifyRefreshToken(r, now) = "ok"
      /\ users[r.userId].isActive
      /\ matchingSessions(r) # {} ) => refreshError(r) = "ok"

\* C2: from the completion of logout(u) until a new session of u is created,
\* every Session row of u is inactive and refresh is rejected for every refresh
\* token that was issued to u, whichever of u's sessions it belonged to.
C2_LogoutClosesAllSessions ==
  \A u \in UserIds : loggedOut[u] =>
    /\ \A i \in userRows(u) : ~sessions[i].isActive
    /\ \A r \in issuedRefresh : r.userId = u => refreshError(r) # "ok"

\* C2 witness: a logout closed two sessions of one user that hold different tokens
C2_Witness ==
  \E u \in UserIds :
    /\ loggedOut[u]
    /\ \E i, j \in userRows(u) : sessions[i].refreshTokenHash # sessions[j].refreshTokenHash
    /\ \E k \in 1..Len(securityLog) :
         securityLog[k].eventType = "LOGOUT" /\ securityLog[k].userId = u /\ securityLog[k].meta = 2

\* C3: from a successful password change of u until a new session of u is
\* created, every Session row of u is inactive, the ones of other clients
\* included, and refresh is rejected for every refresh token issued to u.
C3_PasswordChangeClosesAllSessions ==
  \A u \in UserIds : pwChanged[u] =>
    /\ \A i \in userRows(u) : ~sessions[i].isActive
    /\ \A r \in issuedRefresh : r.userId = u => refreshError(r) # "ok"

\* C3 witness: a password change closed two sessions of one user
C3_Witness ==
  \E u \in UserIds :
    /\ pwChanged[u]
    /\ users[u].passwordHash # hashPassword(SeedPassword(u))
    /\ \E i, j \in userRows(u) : sessions[i].refreshTokenHash # sessions[j].refreshTokenHash

\* C4: after logout or a successful password change of u, and until u logs in
\* again, authenticateToken rejects every access token issued to u.
C4_AccessTokensRejected ==
  \A u \in UserIds : (loggedOut[u] \/ pwChanged[u]) =>
    \A t \in issuedAccess : t.userId = u => authenticateToken(t) # "ok"

\* C7: whenever no DELETE /users/:id is half-way through, a user whose active
\* flag is false owns no active Session row.
C7_InactiveUserHasNoActiveSession ==
  (\A s \in Slots : reqs[s].op # "deactivate") =>
    \A i \in SessionIds : sessions[i].isActive => users[sessions[i].userId].isActive

\* the visibility rule of the access model: the node is PUBLIC, or of the
\* requester's role, or the requester is ADMIN
permitted(row, level) ==
  row.accessLevel = "PUBLIC" \/ row.accessLevel = level \/ level = "ADMIN"

\* C5: the listing and the file read return an active node to a requester if
\* and only if the node is PUBLIC, or of the requester's role, or the requester
\* is ADMIN: the read of an active file succeeds exactly when the file is
\* permitted, and a listing holds exactly the permitted active children.
C5_ReturnedIffPermitted ==
  /\ resp.route = "GET /filesystem/*" =>
       \A i \in FsIds : (fs[i].path = resp.path /\ fs[i].type = "FILE" /\ fs[i].isActive) =>
         ((resp.status = 200 /\ resp.id = i) <=> permitted(fs[i], resp.level))
  /\ (resp.route = "GET /filesystem" /\ resp.status = 200) =>
       \A i \in FsIds : (fs[i].parentId = resp.id /\ fs[i].isActive) =>
         (i \in resp.items <=> permitted(fs[i], resp.level))

FsWriteRoutes == {"POST /filesystem", "PUT /filesystem/:id", "DELETE /filesystem/:id"}

C6_ForbiddenFileLooksMissing ==
  \A s \in ExecSlots :
    ( /\ execs[s].op = "ran"
      /\ execs[s].session.terminalType = "FILESYSTEM"
      /\ parseCommand(execs[s].command).command \in {"cat", "type"}
      /\ parseCommand(execs[s].command).args # <<>> ) =>
    LET filename == parseCommand(execs[s].command).args[1]
        file == findActive(catPath(dirOr(execs[s].session), filename), "FILE")
    IN (file # 0 /\ ~permitted(fs[file], users[execs[s].userId].accessLevel)) =>
         /\ execs[s].success = FALSE
         /\ execs[s].output = << <<"File not found: ">>, filename >>

\* C9: an executeCommand call on a session id that does not exist, belongs to
\* another user or is inactive returns success=false and changes no terminal
\* session; only a call on an existing active session of the caller goes on to
\* run the command.
C9_BadSessionChangesNothing ==
  [][ /\ (nExec' = nExec + 1 /\ execs' = execs) =>
           (resp'.route = "executeCommand" /\ resp'.success = FALSE /\ term' = term)
      /\ \A s \in ExecSlots : (execs[s] = Idle /\ execs'[s] # Idle) =>
           /\ execs'[s].sessionId \in TermIds
           /\ term[execs'[s].sessionId].userId = execs'[s].userId
           /\ term[execs'[s].sessionId].isActive ]_vars

\* C9 witness: a call on an ended session, or on a session of another user, was
\* answered with the error result
C9_Witness ==
  /\ resp.route = "executeCommand"
  /\ resp.success = FALSE
  /\ resp.output = << <<"Error: ">>, <<"Terminal session not found or inactive">> >>
  /\ resp.sessionId \in TermIds
  /\ ~term[resp.sessionId].isActive
  /\ \E i \in TermIds : term[i].isActive

\* C10: after n sequential executions in one session the history holds the
\* last min(n, 100) of them, in execution order; after 150 it is exactly the
\* executions 51..150.
C10_HistoryKeepsLast100 ==
  term # <<>> =>
    LET h == term[1].commandHistory
        n == nExec - Cardinality({s \in ExecSlots : execs[s] # Idle})
        len == IF n < HistoryLimit THEN n ELSE HistoryLimit
    IN /\ Len(h) = len
       /\ \A i \in 1..len :
            /\ h[i].command = HistoryCommand(n - len + i)
            /\ h[i].result = (IF (n - len + i) % 2 = 0 THEN "success" ELSE "error")

\* C10 witness: 150 executions done, the history is 100 long and starts at the 51st
C10_Witness ==
  /\ term # <<>>
  /\ nExec = 150
  /\ \A s \in ExecSlots : execs[s] = Idle
  /\ Len(term[1].commandHistory) = 100
  /\ term[1].commandHistory[1].command = HistoryCommand(51)
  /\ term[1].commandHistory[100].command = HistoryCommand(150)

\* C11: no two filesystem nodes, active or soft-deleted, share a path, whatever
\* creates, updates and deletes have run and however they interleave; a create
\* of an ADMIN whose path is taken is answered 409 and adds no node.
C11_PathsUnique ==
  /\ [](\A i, j \in FsIds : i # j => fs[i].path # fs[j].path)
  /\ [][ ( /\ resp'.route = "POST /filesystem"
           /\ (resp' # resp \/ reqs' # reqs \/ nReq' # nReq)
           /\ resp'.level = "ADMIN"
           /\ findByPath(fs, resp'.path) # 0 ) =>
         (resp'.status = 409 /\ fs' = fs) ]_vars

\* C11 witness: of two creates of one new path that both passed the existence
\* check, one added the node and the other was answered 409; a soft-deleted
\* node keeps its path
C11_Witness ==
  /\ Len(fs) = Len(SeedFs) + 1
  /\ resp.route = "POST /filesystem"
  /\ resp.status = 409
  /\ resp.path = fs[Len(fs)].path
  /\ \E i \in FsIds : ~fs[i].isActive

\* the path of the parent: the last segment removed, "/" for a root-level path
\* and for "/" itself
parentPath(d) == IF Len(d) <= 2 THEN Root ELSE SubSeq(d, 1, Len(d) - 1)

\* the cd .. that the call in slot s has run
ranCdUp(s) ==
  /\ execs[s].op = "ran"
  /\ execs[s].session.terminalType = "FILESYSTEM"
  /\ parseCommand(execs[s].command) = [command |-> "cd", args |-> << <<"..">> >>]

\* C12: cd .. succeeds and sets the current directory to the parent path of the
\* directory the session was in: / from /research, and / from /.
C12_CdUpGoesToParent ==
  \A s \in ExecSlots : ranCdUp(s) =>
    /\ execs[s].success
    /\ execs[s].output = << <<"Changed directory to: ">>, parentPath(dirOr(execs[s].session)) >>
    /\ term[execs[s].sessionId].currentDirectory = parentPath(dirOr(execs[s].session))

\* C12 witness: cd research, cd .. and then, at the root, cd .. again
C12_Witness ==
  /\ ranCdUp(1)
  /\ execs[1].session.currentDirectory = Root
  /\ term[1].currentDirectory = Root
  /\ Len(term[1].commandHistory) = 2
  /\ term[1].commandHistory[1].command = << <<"cd">>, <<"research">> >>
  /\ term[1].commandHistory[1].result = "success"
  /\ term[1].commandHistory[2].command = << <<"cd">>, <<"..">> >>
  /\ term[1].commandHistory[2].result = "success"

\* the ls or dir that the call in slot s has run
ranLs(s) ==
  /\ execs[s].op = "ran"
  /\ execs[s].session.terminalType = "FILESYSTEM"
  /\ parseCommand(execs[s].command).command \in {"ls", "dir"}

\* the names an output of ls lists
listedNames(output) == {output[k][2] : k \in DOMAIN output}

\* the active nodes whose parent is the node at path d
activeChildren(d) ==
  {i \in FsIds : /\ fs[i].isActive /\ fs[i].parentId # 0 /\ fs[fs[i].parentId].path = d}

\* C13: ls/dir in a FILESYSTEM session whose current directory D is not / lists
\* exactly the active nodes whose parent is D, and answers "Directory is empty."
\* with success when there are none.
C13_LsListsChildren ==
  \A s \in ExecSlots : (ranLs(s) /\ dirOr(execs[s].session) # Root) =>
    LET kids == activeChildren(dirOr(execs[s].session))
    IN /\ execs[s].success
       /\ IF kids = {} THEN execs[s].output = Text("Directory is empty.")
          ELSE /\ execs[s].output # Text("Directory is empty.")
               /\ listedNames(execs[s].output) = {fs[i].name : i \in kids}
               /\ Len(execs[s].output) = Cardinality(kids)

\* C14: ls in a FILESYSTEM session whose current directory is /, over the
\* seeded filesystem, succeeds and lists readme.txt and community.
C14_RootLsShowsPublicEntries ==
  \A s \in ExecSlots : (ranLs(s) /\ dirOr(execs[s].session) = Root /\ fs = SeedFs) =>
    /\ execs[s].success
    /\ execs[s].output # Text("Directory is empty.")
    /\ {"readme.txt", "community"} \subseteq listedNames(execs[s].output)

\* C15: a login that fails answers "Invalid credentials" for an unknown
\* username or a wrong password and "Account is deactivated" for an inactive
\* account; it creates no Session row, leaves last-login (the whole users
\* table) as it was, hands out no token and appends one ACCESS_DENIED event.
C15_FailedLoginChangesNothing ==
  [][ \A s \in Slots, u \in Usernames, p \in Passwords :
        ( /\ LoginCheck(s, u, p)
          /\ \/ u \notin DOMAIN users
             \/ ~users[u].isActive
             \/ users[u].passwordHash # hashPassword(p) ) =>
        /\ resp'.route = "POST /auth/login"
        /\ resp'.status # 200
        /\ (u \notin DOMAIN users \/ users[u].isActive) => resp'.content = "Invalid credentials"
        /\ (u \in DOMAIN users /\ ~users[u].isActive /\ users[u].passwordHash = hashPassword(p)) =>
             resp'.content = "Account is deactivated"
        /\ resp'.content \in {"Invalid credentials", "Account is deactivated"}
        /\ sessions' = sessions
        /\ users' = users
        /\ reqs' = reqs
        /\ issuedAccess' = issuedAccess
        /\ issuedRefresh' = issuedRefresh
        /\ Len(securityLog') = Len(securityLog) + 1
        /\ SubSeq(securityLog', 1, Len(securityLog)) = securityLog
        /\ securityLog'[Len(securityLog')].eventType = "ACCESS_DENIED" ]_vars

\* C15 witness: a login with the right password of a deactivated account was refused
C15_Witness ==
  /\ resp.route = "POST /auth/login"
  /\ resp.content = "Account is deactivated"
  /\ securityLog # <<>>
  /\ securityLog[Len(securityLog)].eventType = "ACCESS_DENIED"
  /\ \E u \in UserIds : ~users[u].isActive /\ securityLog[Len(securityLog)].userId = u

\* C16: a login that succeeds appends one active Session row of the user and
\* leaves every existing row as it was, whether or not other logins of the
\* user are in flight.
C16_LoginAddsOneSession ==
  [][ \A s \in Slots :
        (LoginCommit(s) /\ resp'.status = 200) =>
          /\ Len(sessions') = Len(sessions) + 1
          /\ SubSeq(sessions', 1, Len(sessions)) = sessions
          /\ sessions'[Len(sessions')].isActive
          /\ sessions'[Len(sessions')].userId = reqs[s].user.id
          /\ Cardinality({i \in 1..Len(sessions') :
                            sessions'[i].userId = reqs[s].user.id /\ sessions'[i].isActive})
               = activeCount(sessions, reqs[s].user.id) + 1 ]_vars

\* C16 witness: two logins of one user have both completed and left two active rows
C16_Witness ==
  /\ Len(sessions) = 2
  /\ sessions[1].userId = sessions[2].userId
  /\ sessions[1].isActive /\ sessions[2].isActive
  /\ nReq = 2
  /\ \A s \in Slots : reqs[s] = Idle
  /\ Len(securityLog) = 2
  /\ resp.status = 200

\* the COMMAND events of a log
commandEvents(log) == {k \in 1..Len(log) : log[k].eventType = "COMMAND"}

\* the text sanitizeInput is to leave of the command lines of the model
sanitizedText(cmd) == IF cmd = << <<"<pwd>">> >> THEN << <<"pwd">> >> ELSE cmd

\* C17: an executeCommand call that found its session appends, when it
\* completes, one COMMAND event that carries the sanitized command text and
\* the success flag of the result, whether the command succeeded, failed or
\* was not recognized; no other step adds a COMMAND event.
C17_OneCommandEventPerCall ==
  [][ /\ \A s \in ExecSlots : ExecPersist(s) =>
           /\ Len(securityLog') = Len(securityLog) + 1
           /\ SubSeq(securityLog', 1, Len(securityLog)) = securityLog
           /\ LET e == securityLog'[Len(securityLog')]
              IN /\ e.eventType = "COMMAND"
                 /\ e.userId = execs[s].userId
                 /\ e.meta.sessionId = execs[s].sessionId
                 /\ e.meta.command = sanitizedText(execs[s].raw)
                 /\ e.meta.success = resp'.success
                 /\ resp'.command = e.meta.command
      /\ commandEvents(securityLog') # commandEvents(securityLog) => \E s \in ExecSlots : ExecPersist(s)
    ]_vars

\* C17 witness: a command that is not recognized in its terminal has left a
\* COMMAND event with success = false
C17_Witness ==
  /\ resp.route = "executeCommand"
  /\ resp.success = FALSE
  /\ resp.output = << <<"Access denied. Command ">>, <<"ls">>, <<" not recognized.">> >>
  /\ securityLog # <<>>
  /\ securityLog[Len(securityLog)].eventType = "COMMAND"
  /\ securityLog[Len(securityLog)].meta.success = FALSE
  /\ securityLog[Len(securityLog)].meta.command = << <<"ls">> >>

\* the result executeCommand returns from its catch when the database fails
dbFailure(command, sessionId) ==
  ExecResult(command, << <<"Error: ">>, <<DbError>> >>, FALSE, sessionId)

\* C18: executeCommand never throws past its boundary. Whatever fails inside it
\* (the session is missing, the session query rejects, the handler's query
\* rejects, the write of the history rejects, the write of the security event
\* rejects), the call ends with a result object: a failure is a result whose
\* success flag is false and whose output is the error text, and a failure
\* inside a handler is a failed command that is still recorded.
C18_ExecuteCommandNeverThrows ==
  [][ /\ \A s \in ExecSlots, u \in UserIds, id \in TermIdParams, c \in FaultCommands :
           /\ ExecLoadFails(s, u, id, c, MaxExecs) => resp' = dbFailure(c, id)
           /\ (ExecLoad(s, u, id, c, MaxExecs) /\ execs' = execs) =>
                 /\ resp'.route = "executeCommand"
                 /\ resp'.command = c /\ ~resp'.success
                 /\ resp'.output[1] = <<"Error: ">>
      /\ \A s \in ExecSlots :
           /\ ExecDispatchFails(s) =>
                 /\ execs'[s].op = "ran" /\ ~execs'[s].success
                 /\ execs'[s].output[2] = <<DbError>>
           /\ ExecPersistFails(s) => resp' = dbFailure(execs[s].raw, execs[s].sessionId)
           /\ ExecPersist(s) =>
                 /\ resp'.route = "executeCommand"
                 /\ resp'.success = execs[s].success
                 /\ resp'.sessionId = execs[s].sessionId
    ]_vars

\* `cd research` changed the directory of session 1 and the write of the
\* history then failed: the call returned the failure and kept no history
C18_Witness ==
  /\ Len(term) >= 1
  /\ term[1].currentDirectory = <<"", "research">>
  /\ term[1].commandHistory = <<>>
  /\ resp = dbFailure(<< <<"cd">>, <<"research">> >>, 1)

C20_BusinessFailuresTyped ==
  [][ /\ \A s \in Slots, u \in Usernames, p \in Passwords :
           (LoginCheck(s, u, p) /\ loginError(u, p) # "ok") => resp'.status = 401
      /\ \A t \in RefreshInputs :
           (RefreshTokens(t) /\ refreshError(t) = "Invalid refresh token") =>
              resp'.status = 401
      /\ \A s \in Slots, b \in RegisterBodies :
           (RegisterCheck(s, b) /\ registerError(b) # "ok") => resp'.status = 409
    ]_vars

\* C21: POST /auth/refresh takes the refresh token from the body or from the
\* refreshToken cookie: a request that carries a token only in the cookie is
\* answered as the same token sent in the body is, by the refresh service.
C21_CookieTokenReachesService ==
  [][ \A c \in issuedRefresh :
        (PostRefresh(NoToken, c) /\ verifyRefreshToken(c, now) = "ok") =>
           resp' = thrown("POST /auth/refresh", refreshError(c)) ]_vars

CommandTable(terminalType) ==
  IF terminalType = "FILESYSTEM" THEN {"ls", "dir", "cd", "cat", "type", "pwd", "help", "clear"}
  ELSE IF terminalType = "MILITARY" THEN {"status", "deploy", "scan", "help", "clear"}
  ELSE IF terminalType = "RESEARCHER" THEN {"analyze", "research", "data", "help", "clear"}
  ELSE {"status", "emergency", "report", "help", "clear"}

\* the first piece of the answer each table gives to a verb it does not hold
NotInTable(terminalType) ==
  IF terminalType = "FILESYSTEM" THEN <<"Command not found: ">>
  ELSE IF terminalType = "MILITARY" THEN <<"Access denied. Command ">>
  ELSE IF terminalType = "RESEARCHER" THEN <<"Research module cannot process: ">>
  ELSE <<"EMERGENCY: Command ">>

\* C23: the command table is chosen by the terminal type of the session alone,
\* whatever the role of its user: a verb outside the table of the session's type
\* returns success=false with that table's wording and leaves the current
\* directory unchanged, and a verb of the table is never answered that way.
C23_TableByTerminalType ==
  [][ ExecDispatch(1) =>
        LET verb == parseCommand(sanitizeInput(execs[1].command)).command
            terminalType == execs[1].session.terminalType
        IN IF verb \in CommandTable(terminalType)
           THEN execs'[1].output[1] # NotInTable(terminalType)
           ELSE /\ ~execs'[1].success
                /\ execs'[1].output[1] = NotInTable(terminalType)
                /\ term' = term
    ]_vars

\* a RESEARCHER user's MILITARY terminal was given `analyze`, a verb of the
\* research table only, and answered with the failure of the military table
C23_Witness ==
  /\ Len(term) = 1
  /\ term[1].terminalType = "MILITARY"
  /\ users[term[1].userId].accessLevel = "RESEARCHER"
  /\ term[1].currentDirectory = Root
  /\ resp = ExecResult(<< <<"analyze">> >>,
                       << <<"Access denied. Command ">>, <<"analyze">>, <<" not recognized.">> >>,
                       FALSE, 1)

\* the refresh token is one that refreshTokens has to accept: it verifies, its
\* user is active and an active Session row holds its hash
refreshable(tok) ==
  /\ tok \in issuedRefresh
  /\ verifyRefreshToken(tok, now) = "ok"
  /\ users[tok.userId].isActive
  /\ matchingSessions(tok) # {}

\* C24: of two refresh calls that present the same refresh token against the
\* same session, at most one returns a new token pair and the other fails with
\* InvalidRefreshToken: every call with a token of an active session either
\* returns a pair and leaves no session that still matches the token, or fails
\* with 'Invalid refresh token'.
C24_ConcurrentRefreshOneWinner ==
  [][ \A t \in issuedRefresh :
        (PostRefresh(t, NoToken) /\ refreshable(t)) =>
           \/ resp'.status = 200 /\ matchingSessions(t)' = {}
           \/ resp'.content = "Invalid refresh token" ]_vars

\* C25: every command executed on an active terminal session is recorded. When
\* the n calls of executeCommand made on the session (n at most 100) have all
\* completed, in any interleaving, its command history holds n entries.
C25_EveryCommandRecorded ==
  ( /\ term # <<>>
    /\ term[1].isActive
    /\ \A s \in CallSlots : execs[s] = Idle ) =>
       Len(term[1].commandHistory) = nExec

\* C26: once endTerminalSession has completed for a session, the command
\* history and the current directory of that session never change again, not
\* even by an executeCommand that was in flight when the session was ended.
C26_EndedSessionFrozen ==
  [][ \A i \in TermIds :
        ~term[i].isActive =>
           /\ term'[i].commandHistory = term[i].commandHistory
           /\ term'[i].currentDirectory = term[i].currentDirectory ]_vars

C28_UnknownSessionIsSuspicious ==
  [][ \A t \in issuedRefresh :
        ( /\ PostRefresh(t, NoToken)
          /\ verifyRefreshToken(t, now) = "ok"
          /\ users[t.userId].isActive
          /\ matchingSessions(t) = {} ) =>
           /\ resp'.content = "Invalid refresh token"
           /\ Len(securityLog') = Len(securityLog) + 1
           /\ securityLog'[Len(securityLog')].eventType = "SUSPICIOUS"
           /\ sessions' = sessions ]_vars

\* C29: changePassword with a wrong current password fails with 'Current
\* password is incorrect' (answered 400) and leaves the stored password hash of
\* every user and every Session row unchanged, the user's sessions still active.
C29_WrongCurrentPasswordChangesNothing ==
  [][ \A t \in AccessInputs, c \in Passwords, n \in NewPasswords :
        ( /\ ChangePassword(t, c, n)
          /\ verifyAccessToken(t, now) = "ok"
          /\ users[t.userId].isActive
          /\ ~comparePassword(c, users[t.userId].passwordHash) ) =>
           /\ resp' = HttpResp("POST /auth/change-password", 400, "Current password is incorrect")
           /\ users' = users
           /\ sessions' = sessions ]_vars

\* a password change with a wrong current password was answered 400 while the
\* seeded hashes are all in place and a session of a user is still active
C29_Witness ==
  /\ resp = HttpResp("POST /auth/change-password", 400, "Current password is incorrect")
  /\ \A u \in UserIds : users[u].passwordHash = hashPassword(SeedPassword(u))
  /\ \E i \in SessionIds : sessions[i].isActive

\* C30: cd changes the current directory of a session only when an active
\* DIRECTORY node exists at the resolved path, and then sets it to exactly that
\* path; in every other case (no argument, no node, a FILE node, a soft-deleted
\* node) it returns success=false and the current directory is unchanged.
C30_CdOnlyToActiveDirectory ==
  [][ ( /\ ExecDispatch(1)
        /\ execs[1].session.terminalType = "FILESYSTEM"
        /\ parseCommand(sanitizeInput(execs[1].command)).command = "cd" ) =>
        LET args == parseCommand(sanitizeInput(execs[1].command)).args
            resolved == cdPath(dirOr(execs[1].session), args[1])
        IN IF /\ args # <<>>
              /\ \E i \in FsIds : /\ fs[i].path = resolved
                                  /\ fs[i].type = "DIRECTORY"
                                  /\ fs[i].isActive
           THEN /\ execs'[1].success
                /\ term'[execs[1].sessionId].currentDirectory = resolved
                /\ \A i \in TermIds : i # execs[1].sessionId => term'[i] = term[i]
           ELSE /\ ~execs'[1].success
                /\ term' = term
    ]_vars

\* `cd military` after /military was soft-deleted: the command failed and the
\* session is still at /
C30_Witness ==
  /\ ~fs[3].isActive
  /\ Len(term) = 1
  /\ term[1].currentDirectory = Root
  /\ resp = ExecResult(<< <<"cd">>, <<"military">> >>,
                       << <<"Directory not found: ">>, <<"military">> >>, FALSE, 1)

\* the session s as it would be at the root
atRoot(s) == [s EXCEPT !.currentDirectory = Root]

\* C31: soft-deleting a directory clears only that node's active flag: the
\* active flags of all its children are unchanged, cd into the deleted
\* directory then fails, a child file is still readable by its direct path,
\* and a session whose current directory is the deleted directory keeps it.
C31_DeleteLeavesChildren ==
  [][ \A id \in FsIds :
        ( /\ FsDelete("admin", id)
          /\ fs[id].type = "DIRECTORY" ) =>
          /\ ~fs'[id].isActive
          /\ \A j \in FsIds \ {id} : fs'[j] = fs[j]
          /\ term' = term
          /\ \A i \in TermIds :
                /\ ~handleChangeDirectoryCommand(<<fs[id].path>>, term[i])'.success
                /\ ~handleChangeDirectoryCommand(<<Tail(fs[id].path)>>, atRoot(term[i]))'.success
          /\ \A j \in FsIds :
                (fs[j].parentId = id /\ fs[j].type = "FILE" /\ fs[j].isActive) =>
                  \A i \in TermIds :
                    /\ handleReadFileCommand(<<Tail(fs[j].path)>>, atRoot(term[i]))'.success
                    /\ handleReadFileCommand(<<Tail(fs[j].path)>>, atRoot(term[i]))'.output
                         = Text(fs[j].content)
    ]_vars

\* the session went into /military, /military was soft-deleted, `cd /military`
\* then failed, and `cat deployment_orders.txt` still printed the file: the
\* session is still in /military
C31_Witness ==
  /\ ~fs[3].isActive
  /\ fs[8].isActive
  /\ Len(term) = 1
  /\ term[1].currentDirectory = <<"", "military">>
  /\ Len(term[1].commandHistory) = 3
  /\ term[1].commandHistory[1].command = << <<"cd">>, <<"military">> >>
  /\ term[1].commandHistory[1].result = "success"
  /\ term[1].commandHistory[2].command = << <<"cd">>, <<"", "military">> >>
  /\ term[1].commandHistory[2].result = "error"
  /\ resp = ExecResult(<< <<"cat">>, <<"deployment_orders.txt">> >>,
                       Text("CLASSIFIED: Military Deployment Orders"), TRUE, 1)

\* the requests of the times ts that lie less than windowMs before t
inWindow(ts, t) == {k \in DOMAIN ts : t - ts[k] < windowMs}

\* C32: for each client address the sensitive rate limiter lets at most
\* maxRequests requests through in any sliding window of windowMs and answers
\* the rest with 429; a rejected request is not counted, requests of other
\* addresses never affect the decision, and the sweep never changes which
\* requests are admitted: a request is let through exactly when fewer than
\* maxRequests requests of its own address were let through less than windowMs
\* before it.
C32_SlidingWindowPerAddress ==
  [][ \A ip \in Addresses, c \in BOOLEAN, n \in {1, maxRequests + 2, maxRequests + 3} :
        SensitiveRateLimit(ip, c, n) =>
          /\ security'.last = [ip |-> ip,
                               status |-> IF Cardinality(inWindow(security.admitted[ip],
                                                                  security.time)) < maxRequests
                                          THEN 200 ELSE 429]
          /\ \A a \in Addresses :
                LET ts == security'.admitted[a]
                IN \A k \in DOMAIN ts :
                     Cardinality({j \in 1..k : ts[k] - ts[j] < windowMs}) <= maxRequests
    ]_vars

\* the address was let through maxRequests times at once and rejected once; a
\* full window later its next request, the other address's request having been
\* served in between, was let through again
C32_Witness ==
  /\ security.sent["10.0.0.1"] = maxRequests + 2
  /\ Len(security.admitted["10.0.0.1"]) = maxRequests + 1
  /\ security.admitted["10.0.0.1"][maxRequests] = 0
  /\ security.admitted["10.0.0.1"][maxRequests + 1] = windowMs
  /\ Len(security.admitted["10.0.0.2"]) = 1
  /\ Len(securityLog) = 1
  /\ security.last = [ip |-> "10.0.0.1", status |-> 200]

\* C33: inactivity is permanent: once an auth Session row or a TerminalSession
\* has been marked inactive (by logout, password change, session end or user
\* deactivation), no operation makes it active again, including refresh,
\* executeCommand and reactivating the user.
C33_InactiveStaysInactive ==
  [][ /\ \A i \in SessionIds :
           ~sessions[i].isActive => (i \in DOMAIN sessions' /\ ~sessions'[i].isActive)
      /\ \A i \in TermIds :
           ~term[i].isActive => (i \in DOMAIN term' /\ ~term'[i].isActive)
    ]_vars

\* the researcher's first terminal session, which only the deactivation
\* closes, is still closed after the researcher was reactivated and ran a
\* command on it
C33_Witness ==
  /\ Len(term) >= 1
  /\ ~term[1].isActive
  /\ users["researcher"].isActive
  /\ nReq = 3
  /\ resp = caught(<< <<"pwd">> >>, "Terminal session not found or inactive", 1)

\* C34: every refresh token handed to a client by register, login or refresh
\* is backed by an active Session row holding its hash at the moment it is
\* returned, so it can be exchanged by refresh; in particular the token pair
\* returned by register is refreshable.
C34_IssuedTokenHasSession ==
  [][ \A t \in issuedRefresh' \ issuedRefresh :
        \E i \in DOMAIN sessions' :
          /\ sessions'[i].isActive
          /\ sessions'[i].userId = t.userId
          /\ sessions'[i].refreshTokenHash = hashToken(t)
    ]_vars

\* C35: login is all-or-nothing: a 'User logged in successfully' LOGIN event
\* and the last-login update exist only for logins that also persisted a
\* Session row and returned tokens; when computing the expiry or persisting
\* the session fails, the login leaves no LOGIN event and no last-login change.
C35_LoginAllOrNothing ==
  [][ \A s \in Slots :
        (LoginCommit(s) \/ LoginCommitFails(s)) =>
          \/ /\ Len(sessions') = Len(sessions) + 1
             /\ resp'.status = 200
          \/ /\ securityLog' = securityLog
             /\ users' = users
    ]_vars

\* C36: authenticateToken rejects with 401 every request whose access token
\* names a user that is missing or inactive at the time of the request, so
\* deactivating a user immediately cuts off all of that user's outstanding
\* access tokens; req.user is only ever set to an active user.
C36_InactiveUserIsRejected ==
  [][ \A t \in AccessInputs :
        AuthenticateRequest(t) =>
          /\ (t \in issuedAccess /\ (t.userId \notin DOMAIN users \/ ~users[t.userId].isActive))
                => resp'.status = 401
          /\ resp'.status # 401 =>
                /\ resp'.user.id = t.userId
                /\ resp'.user.isActive
                /\ users[resp'.user.id].isActive
    ]_vars

\* the researcher logged in and was deactivated; the request with the
\* researcher's access token, which has not expired, was answered 401
C36_Witness ==
  /\ ~users["researcher"].isActive
  /\ resp.route = "authenticateToken"
  /\ resp.status = 401
  /\ resp.message = "Account is deactivated"
  /\ resp.token.userId = "researcher"
  /\ verifyAccessToken(resp.token, now) = "ok"

C38_EveryCommandDelivered ==
  (Len(client.terminal.commandHistory) > Len(client.terminal.delivered))
    ~> (Len(client.terminal.commandHistory) <= Len(client.terminal.delivered))

\* C39: an address blocked with blockIP(ip, d) is rejected by
\* ipBlockMiddleware with 403 for the full duration d after the most recent
\* blockIP call for that address, also when it is blocked again while an
\* earlier block is still running, and is admitted again once that duration
\* has passed.
C39_BlockedForFullDuration ==
  [][ \A ip \in Addresses :
        (IpBlockMiddleware(ip) /\ ip \in DOMAIN security.blocks) =>
          LET until == security.blocks[ip].at + security.blocks[ip].duration
          IN /\ security.time < until => security'.last.status = 403
             /\ security.time > until => security'.last.status = 200
    ]_vars
====
